---- MODULE Spec2Model ----
(***************************************************************************)
(* Model of the chapter generation workflow of novel-writer:               *)
(*   workflow/runner.py   ChapterRunner.run  (version/review loop)         *)
(*   agents/reviewer.py   ReviewResult.model_post_init, feedback format    *)
(*   agents/archivist.py  ArchivistAgent.run / _apply_updates              *)
(*   memory/structured_store.py, memory/vector_store.py  (store writes)    *)
(*                                                                         *)
(* The agents wrap a language model; what a call returns is an input of    *)
(* the model, chosen with \E, and every call may raise instead.  (With the *)
(* agent classes of this repository the calls at runner.py:132, 233 and    *)
(* 266 pass target_word_count, which DirectorAgent.run and                 *)
(* ReviewerAgent.run do not accept: that is the TypeError outcome below.)  *)
(***************************************************************************)
EXTENDS Integers, Sequences, FiniteSets, TLC

(***************************************************************************)
(* Program constants                                                       *)
(***************************************************************************)
max_versions == 3

max_reviews_per_version == 2

\* def run(..., max_review_attempts: int = 3, max_retries = None)
DefaultMaxReviewAttempts == 3

PassScore == 70

RewriteScore == 50

\* score: int = Field(..., ge=0, le=100)
MinScore == 0

MaxScore == 100

(***************************************************************************)
(* Bounds of the model                                                     *)
(***************************************************************************)
MaxUpdates == 1

MaxEvents == 1

MaxForeshadow == 1

MaxIssues == 2

(***************************************************************************)
(* Values                                                                  *)
(***************************************************************************)
Statuses == {"pass", "revision_needed", "rewrite_needed"}

Severities == {"minor", "moderate", "major", "critical"}

\* exceptions a stage call (an LLM call behind BaseAgent.invoke) can raise
StageExceptions == {"LLMError", "TypeError"}

\* sequences over S of length at most n
BSeq(S, n) == UNION {[1..k -> S] : k \in 0..n}

SeqToSet(s) == {s[i] : i \in 1..Len(s)}

\* [x for x in s if x not in r]
RECURSIVE Without(_, _)
Without(s, r) ==
    IF s = <<>> THEN <<>>
    ELSE IF Head(s) \in SeqToSet(r) THEN Without(Tail(s), r)
         ELSE <<Head(s)>> \o Without(Tail(s), r)

\* A text is named by the Writer.run call that generated it (gen) and the
\* feedback of every Writer.revise applied to it since (revs).
NoText == [gen |-> 0, revs |-> <<>>]

NoReview == [status |-> "none", score |-> -1, issues |-> <<>>, reviewed |-> NoText]

(***************************************************************************)
(* ReviewResult.model_post_init: the status is recomputed from score and   *)
(* issues, whatever status was supplied.                                   *)
(***************************************************************************)
has_critical(issues) == \E i \in 1..Len(issues) : issues[i] = "critical"

\* mutant of model_post_init: the supplied status is kept
model_post_init_trusting(status, score, issues) == status

model_post_init(status, score, issues) ==
    IF score >= PassScore /\ ~has_critical(issues) THEN "pass"
    ELSE IF score < RewriteScore THEN "rewrite_needed"
    ELSE "revision_needed"

\* ReviewResult(status=..., score=..., issues=...) as returned by
\* ReviewerAgent.run(content=...)
ReviewResult(status, score, issues, content) ==
    [status |-> model_post_init(status, score, issues),
     score |-> score, issues |-> issues, reviewed |-> content]

\* mutant of max_by_score: the last element of maximal score
max_by_score_last(rs) ==
    LET i == CHOOSE k \in 1..Len(rs) :
                 /\ \A j \in 1..Len(rs) : rs[j].score <= rs[k].score
                 /\ \A j \in (k + 1)..Len(rs) : rs[j].score < rs[k].score
    IN rs[i]

\* max(reviews, key=lambda r: r.score): the first element of maximal score
max_by_score(rs) ==
    LET i == CHOOSE k \in 1..Len(rs) :
                 /\ \A j \in 1..Len(rs) : rs[j].score <= rs[k].score
                 /\ \A j \in 1..(k - 1) : rs[j].score < rs[k].score
    IN rs[i]

\* ReviewerAgent.format_feedback_for_writer: status, score and issues of the
\* review rendered as text (reviewed: the text the review was made of)
format_feedback_for_writer(r) ==
    [status |-> r.status, score |-> r.score, issues |-> r.issues,
     reviewed |-> r.reviewed]

\* the text Writer.run returns on its n-th call of the run
WriterRun(n) == [gen |-> n, revs |-> <<>>]

\* the text Writer.revise(original_content, review_feedback) returns
WriterRevise(original_content, review_feedback) ==
    [gen |-> original_content.gen,
     revs |-> Append(original_content.revs, review_feedback)]

VARIABLES
    pc,                   \* position in ChapterRunner.run
    arg_chapter_number,   \* the chapter_number argument (0: None)
    chapter_number,
    outline, context,
    version, current_content, reviews, best_review,
    final_review_result, passed, review_result,
    chapter,              \* the Chapter object built at step 6
    archive_result, apply_step, apply_i,
    returned,             \* the Chapter returned to the caller
    error, failed_at,     \* the exception run raised, and the call that raised it
    stage_exc,            \* the exception a stage call raised
    novel, timeline, foreshadowing, collection,   \* StructuredStore, VectorStore
    store0,               \* the stores when run was called
    calls, last_drafter_output,   \* history of the run
    only_score_30,        \* every review of the run so far returned score 30
    stage_args,           \* the (outline, context) pairs handed to Writer and Reviewer
    earlier_best,         \* the highest review score of the versions before the latest reviewed
    rv_in, rv_out,        \* ReviewResult construction (ReviewSpec)
    mem_in, mem_out,      \* _search_relevant_memories: inputs, results (MemSpec)
    mem_seen,             \* its local set seen, as the last call left it
    max_review_attempts,  \* the argument of run, after the alias max_retries
    cli,                  \* a write command of the CLI: its locals and exit code
    draft,                \* WriterAgent._generate_with_continuation (DraftSpec)
    delta_in, delta_out,  \* relationship and skill deltas (DeltaSpec)
    generation_requests,  \* the requests made to Writer.run in the run
    graph                 \* the compiled chapter graph (GraphSpec)

loopVars == <<version, current_content, reviews, best_review,
              final_review_result, passed, review_result>>

archVars == <<chapter, archive_result, apply_step, apply_i, returned>>

storeVars == <<novel, timeline, foreshadowing, collection>>

errVars == <<error, failed_at, stage_exc>>

histVars == <<calls, last_drafter_output, only_score_30>>

rvVars == <<rv_in, rv_out>>

flowVars == <<stage_args, earlier_best>>

memVars == <<mem_in, mem_out, mem_seen>>

cliVars == <<max_review_attempts, cli>>

auxVars == <<draft, delta_in, delta_out, generation_requests, graph>>

vars == <<pc, arg_chapter_number, chapter_number, outline, context, loopVars,
          archVars, storeVars, errVars, store0, histVars, rvVars, flowVars,
          memVars, cliVars, auxVars>>


(***************************************************************************)
(* Stores                                                                  *)
(***************************************************************************)
NoChapter == [chapter_number |-> 0, content |-> NoText, summary |-> ""]

\* mutant of Chapter: content is left at its default
Chapter_without_content(n, content) ==
    [chapter_number |-> n, content |-> NoText, summary |-> ""]

\* Chapter(chapter_number=..., content=...): summary defaults to ""
Chapter(n, content) == [chapter_number |-> n, content |-> content, summary |-> ""]

\* Novel.get_latest_chapter: chapters[-1] if chapters else None
get_latest_chapter(nv) ==
    IF nv.chapters = <<>> THEN NoChapter ELSE nv.chapters[Len(nv.chapters)]

\* Novel.get_chapter: the first chapter with that number, else None
get_chapter(nv, n) ==
    IF \E i \in 1..Len(nv.chapters) : nv.chapters[i].chapter_number = n
    THEN nv.chapters[CHOOSE i \in 1..Len(nv.chapters) :
                        /\ nv.chapters[i].chapter_number = n
                        /\ \A j \in 1..(i - 1) : nv.chapters[j].chapter_number # n]
    ELSE NoChapter

\* list.sort(key=lambda x: x.chapter_number): stable, ascending
RECURSIVE InsertByChapter(_, _)
InsertByChapter(s, x) ==
    IF s = <<>> THEN <<x>>
    ELSE IF Head(s).chapter_number <= x.chapter_number
         THEN <<Head(s)>> \o InsertByChapter(Tail(s), x)
         ELSE <<x>> \o s

RECURSIVE SortByChapter(_)
SortByChapter(s) ==
    IF s = <<>> THEN <<>>
    ELSE InsertByChapter(SortByChapter(SubSeq(s, 1, Len(s) - 1)), s[Len(s)])

\* mutant of save_chapter: the chapter is appended whether or not its number
\* is in the list
save_chapter_appending(nv, ch) ==
    [nv EXCEPT !.chapters = SortByChapter(Append(nv.chapters, ch))]

\* StructuredStore.save_chapter
save_chapter(nv, ch) ==
    LET existing == get_chapter(nv, ch.chapter_number) IN
    IF existing # NoChapter
    THEN LET idx == CHOOSE i \in 1..Len(nv.chapters) :
                        /\ nv.chapters[i] = existing
                        /\ \A j \in 1..(i - 1) : nv.chapters[j] # existing
         IN [nv EXCEPT !.chapters[idx] = ch]
    ELSE [nv EXCEPT !.chapters = SortByChapter(Append(nv.chapters, ch))]

\* StructuredStore.add_timeline_event
add_timeline_event(tl, ev) == SortByChapter(Append(tl, ev))

\* StructuredStore.add_foreshadowing
add_foreshadowing(fs, f) == Append(fs, f)

\* StructuredStore.resolve_foreshadowing: the first record with that id
resolve_foreshadowing(fs, id, resolved_chapter) ==
    IF \E i \in 1..Len(fs) : fs[i].id = id
    THEN LET k == CHOOSE i \in 1..Len(fs) :
                      /\ fs[i].id = id
                      /\ \A j \in 1..(i - 1) : fs[j].id # id
         IN [fs EXCEPT ![k] = [@ EXCEPT !.resolved_chapter = resolved_chapter,
                                        !.status = "resolved"]]
    ELSE fs

\* VectorStore._split_text: no chunk for an empty text; a text of the model
\* is one chunk
split_text(content) == IF content = NoText THEN <<>> ELSE <<content>>

\* VectorStore.add_chapter: upsert of one document per chunk, id ch{n}_chunk{i}
add_chapter(coll, chapter_id, content, summary, entities) ==
    LET chunks == split_text(content)
        docs == {[id |-> <<chapter_id, i - 1>>, document |-> chunks[i],
                  chapter_id |-> chapter_id, summary |-> summary,
                  entities |-> entities] : i \in 1..Len(chunks)}
    IN IF chunks = <<>> THEN coll
       ELSE {d \in coll : \A n \in docs : n.id # d.id} \cup docs

\* Python truth value of an Optional[str]
Truthy(s) == s \notin {"None", ""}

\* the updates dict _apply_updates builds for one CharacterUpdate is empty
no_updates(u) ==
    /\ ~Truthy(u.status) /\ ~Truthy(u.location) /\ ~Truthy(u.power_level)
    /\ u.inventory_add = <<>> /\ u.inventory_remove = <<>>
    /\ u.new_abilities = <<>> /\ u.lost_abilities = <<>>
    /\ u.equipment_add = <<>> /\ u.equipment_remove = <<>>

\* the character after update_character(name, updates, chapter_number) with
\* the updates dict _apply_updates builds from CharacterUpdate u
updated_character(char, u, n) ==
    LET inv_added == IF u.inventory_add # <<>>
                     THEN char.inventory \o u.inventory_add ELSE char.inventory
        inventory == IF u.inventory_remove # <<>>
                     THEN Without(char.inventory, u.inventory_remove)
                     ELSE inv_added
        abl_added == IF u.new_abilities # <<>>
                     THEN char.abilities \o u.new_abilities ELSE char.abilities
        abilities == IF u.lost_abilities # <<>>
                     THEN Without(abl_added, u.lost_abilities) ELSE abl_added
        eq_added == IF u.equipment_add # <<>>
                    THEN char.equipment \o u.equipment_add ELSE char.equipment
        equipment == IF u.equipment_remove # <<>>
                     THEN Without(eq_added, u.equipment_remove) ELSE eq_added
    IN [status |-> IF Truthy(u.status) THEN u.status ELSE char.status,
        location |-> IF Truthy(u.location) THEN u.location ELSE char.location,
        inventory |-> inventory,
        abilities |-> abilities,
        power_level |-> IF Truthy(u.power_level) THEN u.power_level
                        ELSE char.power_level,
        equipment |-> equipment,
        last_updated_chapter |-> n]

\* one iteration of "for update in result.character_updates": the character
\* is looked up, and updated when it exists and the updates dict is not empty
writes_character(nv, u) == u.name \in DOMAIN nv.characters /\ ~no_updates(u)

apply_character_update(nv, u, n) ==
    IF writes_character(nv, u)
    THEN [nv EXCEPT !.characters[u.name] = updated_character(@, u, n)]
    ELSE nv


(***************************************************************************)
(* Relationship and skill deltas: "target: status", "skill: description"   *)
(***************************************************************************)
\* a delta string is a sequence of characters: a letter, the colon, a blank
DeltaChars == {"a", ":", " "}

\* the values written for a delta without a colon
Updated == <<"updated">>

AcquiredUpdated == <<"acquired/updated">>

RECURSIVE lstrip(_)
lstrip(s) == IF s # <<>> /\ Head(s) = " " THEN lstrip(Tail(s)) ELSE s

RECURSIVE rstrip(_)
rstrip(s) ==
    IF s # <<>> /\ s[Len(s)] = " " THEN rstrip(SubSeq(s, 1, Len(s) - 1)) ELSE s

\* str.strip()
strip(s) == rstrip(lstrip(s))

\* ":" in s
has_colon(s) == \E i \in 1..Len(s) : s[i] = ":"

\* mutant of split_at: the string is split at its last colon
last_colon(s) ==
    CHOOSE i \in 1..Len(s) : s[i] = ":" /\ \A j \in (i + 1)..Len(s) : s[j] # ":"

\* where s.split(":", 1) splits: the first colon
split_at(s) ==
    CHOOSE i \in 1..Len(s) : s[i] = ":" /\ \A j \in 1..(i - 1) : s[j] # ":"

\* s.split(":", 1) of a string with a colon
split_colon(s) ==
    <<SubSeq(s, 1, split_at(s) - 1), SubSeq(s, split_at(s) + 1, Len(s))>>

\* d[k] = v on a copy of the dict d
dict_set(d, k, v) == [x \in DOMAIN d \cup {k} |-> IF x = k THEN v ELSE d[x]]

\* the entry one relationship delta writes
relationship_entry(rel_str) ==
    IF has_colon(rel_str)
    THEN <<strip(split_colon(rel_str)[1]), strip(split_colon(rel_str)[2])>>
    ELSE <<rel_str, Updated>>

\* the entry one skill delta writes
skill_entry(skill_str) ==
    IF has_colon(skill_str)
    THEN <<strip(split_colon(skill_str)[1]), strip(split_colon(skill_str)[2])>>
    ELSE <<strip(skill_str), AcquiredUpdated>>

\* new_relationships after "for rel_str in update.relationship_updates"
RECURSIVE new_relationships(_, _)
new_relationships(relationships, relationship_updates) ==
    IF relationship_updates = <<>> THEN relationships
    ELSE LET e == relationship_entry(Head(relationship_updates))
         IN new_relationships(dict_set(relationships, e[1], e[2]),
                              Tail(relationship_updates))

\* new_skills after "for skill_str in update.skill_updates"
RECURSIVE new_skills(_, _)
new_skills(skills, skill_updates) ==
    IF skill_updates = <<>> THEN skills
    ELSE LET e == skill_entry(Head(skill_updates))
         IN new_skills(dict_set(skills, e[1], e[2]), Tail(skill_updates))


(***************************************************************************)
(* Retrieval: VectorStore.search and ContextBuilder                        *)
(***************************************************************************)
\* self.vector_store.search(keyword, top_k=3)
top_k == 3

\* for keyword in keywords[:5]
keyword_limit == 5

\* build_context(..., max_memories: int = 5)
max_memories == 5

\* the distances the index can report, and the values of hash(): fewer
\* values than there are prefixes, as with 64-bit hashes of 100 characters
Distances == {1, 2}

HashValues == {1, 2}

\* s[:n]
firstN(s, n) == SubSeq(s, 1, IF Len(s) < n THEN Len(s) ELSE n)

\* doc.content[:100]: a chunk is a record with the field prefix, its first
\* 100 characters; a text of the workflow is one short chunk, the prefix of
\* which is the text
prefix100(content) ==
    IF "prefix" \in DOMAIN content THEN content.prefix ELSE content

\* the Document VectorStore.search builds from a stored chunk and its distance
Document(d, distance) ==
    [content |-> d.document, chapter_id |-> d.chapter_id,
     entities |-> d.entities, summary |-> d.summary, distance |-> distance]

\* what the index can hold about a set of queries: the distance of every
\* chunk of the collection to every query
IndexViews(coll, queries) == [queries -> [coll -> Distances]]

\* the order of the chunk ids ch{n}_chunk{i}
id_before(a, b) == a[1] < b[1] \/ (a[1] = b[1] /\ a[2] < b[2])

\* collection.query: the chunks nearest first, chunks at the same distance
\* in the order of their ids
RECURSIVE ranked(_, _)
ranked(docs, dist) ==
    IF docs = {} THEN <<>>
    ELSE LET d == CHOOSE x \in docs : \A y \in docs \ {x} :
                      \/ dist[x] < dist[y]
                      \/ (dist[x] = dist[y] /\ id_before(x.id, y.id))
         IN <<d>> \o ranked(docs \ {d}, dist)

\* hash() on the prefixes of the chunks of a collection
HashFunctions(coll) == [{prefix100(d.document) : d \in coll} -> HashValues]

\* VectorStore.search(query, top_k): the first top_k answers, as Documents
search(index, query, k) ==
    LET dist == index[query]
        r == firstN(ranked(DOMAIN dist, dist), k)
    IN [i \in 1..Len(r) |-> Document(r[i], dist[r[i]])]

\* for keyword in keywords: all_memories.extend(search(keyword, top_k=3))
RECURSIVE extend_all(_, _, _)
extend_all(all, keywords, index) ==
    IF keywords = <<>> THEN all
    ELSE extend_all(all \o search(index, Head(keywords), top_k),
                    Tail(keywords), index)

\* the deduplication loop: a document is kept when the hash of its prefix
\* was not seen before
RECURSIVE unique_by_hash(_, _, _)
unique_by_hash(docs, seen, h) ==
    IF docs = <<>> THEN <<>>
    ELSE LET content_hash == h[prefix100(Head(docs).content)]
         IN IF content_hash \in seen
            THEN unique_by_hash(Tail(docs), seen, h)
            ELSE <<Head(docs)>>
                 \o unique_by_hash(Tail(docs), seen \cup {content_hash}, h)

RECURSIVE InsertByDistance(_, _)
InsertByDistance(s, x) ==
    IF s = <<>> THEN <<x>>
    ELSE IF Head(s).distance <= x.distance
         THEN <<Head(s)>> \o InsertByDistance(Tail(s), x)
         ELSE <<x>> \o s

\* mutant of SortByDistance: the list is left in the order of the queries
SortByDistance_unsorted(s) == s

\* unique_memories.sort(key=lambda x: x.distance): stable, ascending
RECURSIVE SortByDistance(_)
SortByDistance(s) ==
    IF s = <<>> THEN <<>>
    ELSE InsertByDistance(SortByDistance(SubSeq(s, 1, Len(s) - 1)), s[Len(s)])

\* all_memories after the loop over keywords[:5]
collected_memories(keywords, index) ==
    extend_all(<<>>, firstN(keywords, keyword_limit), index)

\* mutant of initial_seen: the set of the previous call is kept
initial_seen_kept(prev) == prev

\* seen = set()   (prev: the set as the previous call left it)
initial_seen(prev) == {}

\* the set seen after the deduplication loop
seen_after(keywords, index, h, prev) ==
    LET docs == collected_memories(keywords, index)
    IN initial_seen(prev)
       \cup {h[prefix100(docs[i].content)] : i \in 1..Len(docs)}

\* ContextBuilder._search_relevant_memories
search_relevant_memories(keywords, max_results, index, h, prev) ==
    firstN(SortByDistance(
               unique_by_hash(collected_memories(keywords, index),
                              initial_seen(prev), h)),
           max_results)

\* ContextBuilder._format_memory: chapter, entities[:3] and content
format_memory(doc) ==
    [chapter_id |-> doc.chapter_id, entities |-> firstN(doc.entities, 3),
     content |-> doc.content]

\* ContextBuilder._extract_keywords: the set of the involved characters and
\* of the terms found in the text of the outline
extract_keywords(o) == SeqToSet(o.characters_involved) \cup o.terms

\* list(keywords): the elements of the set in some order
orders_of(S) == {s \in [1..Cardinality(S) -> S] : SeqToSet(s) = S}

\* mutant of search_calls: without keywords the empty string is searched
search_calls_default_query(keywords) ==
    IF keywords # <<>> THEN Len(firstN(keywords, keyword_limit)) ELSE 1

\* the VectorStore.search calls build_context makes: "if keywords:" and the
\* loop over keywords[:5]
search_calls(keywords) ==
    IF keywords # <<>> THEN Len(firstN(keywords, keyword_limit)) ELSE 0

\* packet.relevant_memories as build_context leaves it
relevant_memories(keywords, index, h, prev) ==
    IF keywords # <<>>
    THEN LET memories == search_relevant_memories(keywords, max_memories,
                                                  index, h, prev)
         IN [i \in 1..Len(memories) |-> format_memory(memories[i])]
    ELSE <<>>


(***************************************************************************)
(* Inputs: what the Archivist's LLM call can return, and the stores a run  *)
(* can start from                                                          *)
(***************************************************************************)
EmptyUpdate(name) ==
    [name |-> name, status |-> "None", location |-> "None",
     power_level |-> "None",
     inventory_add |-> <<>>, inventory_remove |-> <<>>,
     new_abilities |-> <<>>, lost_abilities |-> <<>>,
     equipment_add |-> <<>>, equipment_remove |-> <<>>]

CharacterUpdates ==
    {[EmptyUpdate("hero") EXCEPT !.location = "cave",
                                 !.inventory_add = <<"potion">>,
                                 !.inventory_remove = <<"sword">>],
     [EmptyUpdate("stranger") EXCEPT !.location = "town"]}

ArchiveResults ==
    [chapter_summary : {"summary"},
     key_events : BSeq({"event"}, MaxEvents),
     character_updates : BSeq(CharacterUpdates, MaxUpdates),
     new_foreshadowing : BSeq({"omen"}, MaxForeshadow),
     resolved_foreshadowing : {<<>>, <<<<"fs", 1, 1>>>>},
     entities_mentioned : {<<"hero">>}]

NoArchiveResult ==
    [chapter_summary |-> "", key_events |-> <<>>, character_updates |-> <<>>,
     new_foreshadowing |-> <<>>, resolved_foreshadowing |-> <<>>,
     entities_mentioned |-> <<>>]

Hero ==
    [status |-> "alive", location |-> "unknown", inventory |-> <<"sword">>,
     abilities |-> <<>>, power_level |-> "", equipment |-> <<>>,
     last_updated_chapter |-> 0]

\* the text of a chapter written by an earlier run
OldText == [gen |-> -1, revs |-> <<>>]

OldChapter(n) == [chapter_number |-> n, content |-> OldText, summary |-> "old"]

Stores(nv, tl, fs, coll) ==
    [novel |-> nv, timeline |-> tl, foreshadowing |-> fs, collection |-> coll]

\* no novel.json; a new novel (k = 0); a novel whose chapter 1 is written
InitialStores ==
    {Stores([exists |-> FALSE, chapters |-> <<>>, characters |-> <<>>],
            <<>>, <<>>, {})}
    \cup
    {Stores([exists |-> TRUE,
             chapters |-> [i \in 1..k |-> OldChapter(i)],
             characters |-> [c \in {"hero"} |-> Hero]],
            [i \in 1..k |-> [chapter_number |-> i, event |-> "old",
                             characters_involved |-> <<"hero">>,
                             importance |-> "normal"]],
            [i \in 1..k |-> [id |-> <<"fs", i, 1>>, description |-> "old",
                             planted_chapter |-> i, resolved_chapter |-> 0,
                             status |-> "planted"]],
            {[id |-> <<i, 0>>, document |-> OldText, chapter_id |-> i,
              summary |-> "old", entities |-> <<"hero">>] : i \in 1..k})
     : k \in {0, 1}}

\* the chapter_number argument: None (the next chapter), or chapter 1
ChapterArgs == {0, 1}

\* the calls run(chapter_number) examined: on a novel without chapters
\* chapter_number = 1 and chapter_number = None are the same chapter, and
\* only None is examined
RunCalls ==
    {c \in InitialStores \X ChapterArgs : c[2] <= Len(c[1].novel.chapters)}

\* what the Reviewer's LLM call can return in a run: score and issues
ReviewerOutputs ==
    {[score |-> 30, issues |-> <<>>],
     [score |-> 60, issues |-> <<>>],
     [score |-> 60, issues |-> <<"major">>],
     [score |-> 85, issues |-> <<"critical">>],
     [score |-> 85, issues |-> <<>>]}

\* the outlines the Plotter can return: no character and no term in the
\* text; a character who is also named in the text
Outlines ==
    {[characters_involved |-> <<>>, terms |-> {}],
     [characters_involved |-> <<"hero">>, terms |-> {"hero"}]}

NoOutline == [chapter_number |-> 0, characters_involved |-> <<>>, terms |-> {}]

NoContext ==
    [built |-> FALSE, previous_chapter |-> 0, relevant_memories |-> <<>>]

NoCalls ==
    [director |-> 0, plotter |-> 0, build_context |-> 0, search |-> 0,
     run |-> 0, review |-> 0, revise |-> 0, archivist |-> 0]

NoMemIn == [keywords |-> <<>>, max_results |-> 0, index |-> <<>>, hash |-> <<>>]

\* no call of _search_relevant_memories is being examined
MemIdle == mem_in = NoMemIn /\ mem_out = <<>> /\ mem_seen = {}

\* run is not called by a command of the CLI
NoCli ==
    [command |-> "none", chapter |-> 0, count |-> -1, max_retries |-> 0,
     outlines |-> <<>>, generated |-> {}, loaded |-> <<>>,
     pending |-> <<>>, i |-> 0, completed |-> 0, failed |-> 0,
     exit_code |-> -1, attempted |-> <<>>, stores_after |-> <<>>]

\* run called without max_review_attempts and max_retries, outside the CLI
CliIdle == max_review_attempts = DefaultMaxReviewAttempts /\ cli = NoCli

\* the locals of _generate_with_continuation: the text so far, the backend
\* invocations made, the iterations that asked for a continuation, the text
\* sent with the last continuation request and the last output returned
NoDraft ==
    [full_content |-> <<>>, invocations |-> 0, continuations |-> 0,
     anchor |-> <<>>, chunk |-> <<>>, state |-> "none"]

NoDeltaIn ==
    [relationships |-> <<>>, skills |-> <<>>,
     relationship_updates |-> <<>>, skill_updates |-> <<>>]

NoDeltaOut == [relationships |-> <<>>, skills |-> <<>>, applied |-> FALSE]

\* no Drafter call and no delta parsing is being examined
\* the graph is not invoked
NoGraph ==
    [node |-> "none",
     state |-> [review_result |-> NoReview, retry_count |-> 0,
                max_retries |-> 0],
     outcome |-> "none", archived |-> FALSE]

AuxIdle ==
    /\ draft = NoDraft
    /\ delta_in = NoDeltaIn
    /\ delta_out = NoDeltaOut
    /\ graph = NoGraph

NoRvIn == [status |-> "none", score |-> -1, issues |-> <<>>]

CurrentStores == Stores(novel, timeline, foreshadowing, collection)

\* the state in which run(chapter_number = arg) is called on stores st
RunInit(st, arg) ==
    /\ arg_chapter_number = arg
    /\ chapter_number = 0
    /\ outline = NoOutline
    /\ context = NoContext
    /\ version = 0
    /\ current_content = NoText
    /\ reviews = <<>>
    /\ best_review = NoReview
    /\ final_review_result = NoReview
    /\ passed = FALSE
    /\ review_result = NoReview
    /\ chapter = NoChapter
    /\ archive_result = NoArchiveResult
    /\ apply_step = 0
    /\ apply_i = 0
    /\ returned = NoChapter
    /\ error = "none"
    /\ failed_at = "none"
    /\ stage_exc = "none"
    /\ novel = st.novel
    /\ timeline = st.timeline
    /\ foreshadowing = st.foreshadowing
    /\ collection = st.collection
    /\ store0 = st
    /\ calls = NoCalls
    /\ last_drafter_output = NoText
    /\ only_score_30 = TRUE
    /\ stage_args = {}
    /\ earlier_best = -1
    /\ generation_requests = {}

Init ==
    /\ pc = "start"
    /\ \E c \in RunCalls : RunInit(c[1], c[2])
    /\ rv_in = NoRvIn
    /\ rv_out = NoReview
    /\ MemIdle
    /\ CliIdle
    /\ AuxIdle


(***************************************************************************)
(* ChapterRunner.run, steps 1-3                                            *)
(***************************************************************************)
\* mutant of reraise: the handler logs the error and the call is tried again
reraise_swallowed(p, e) == [pc |-> p, error |-> "none"]

\* except Exception as e: logger.error(...); raise
\* (p: the position of the failed call)
reraise(p, e) == [pc |-> "failed", error |-> e]

\* settings.default_chapter_length
default_chapter_length == 3000

\* mutant of writer_request: the request carries the best review so far
writer_request_with_feedback(o, c, target_word_count) ==
    <<o, c, target_word_count, best_review>>

\* self.writer.run(outline=outline, context=context,
\*                 target_word_count=settings.default_chapter_length): what
\* the prompt of the generation is built from
writer_request(o, c, target_word_count) == <<o, c, target_word_count>>

\* stage_args after a call counted as c: Writer and Reviewer calls are
\* handed outline and context
handed(c) ==
    IF c \in {"run", "review", "revise"}
    THEN stage_args \cup {<<outline, context>>}
    ELSE stage_args

\* a stage call at position p, counted as c, raises inside try/except
StageRaises(p, c) ==
    /\ pc = p
    /\ \E e \in StageExceptions :
          /\ pc' = reraise(p, e).pc
          /\ error' = reraise(p, e).error
          /\ stage_exc' = e
    /\ failed_at' = p
    /\ calls' = [calls EXCEPT ![c] = @ + 1]
    /\ stage_args' = handed(c)
    /\ generation_requests' =
          IF c = "run"
          THEN generation_requests
                   \cup {writer_request(outline, context, default_chapter_length)}
          ELSE generation_requests
    /\ UNCHANGED <<arg_chapter_number, chapter_number, outline, context,
                   loopVars, archVars, storeVars, store0,
                   last_drafter_output, only_score_30, rvVars, earlier_best,
                   memVars, cliVars, draft, delta_in, delta_out, graph>>

\* a stage call at position p, counted as c, raises outside any try
StageRaisesUncaught(p, c) ==
    /\ pc = p
    /\ \E e \in StageExceptions : error' = e /\ stage_exc' = e
    /\ pc' = "failed"
    /\ failed_at' = p
    /\ calls' = [calls EXCEPT ![c] = @ + 1]
    /\ stage_args' = handed(c)
    /\ UNCHANGED <<arg_chapter_number, chapter_number, outline, context,
                   loopVars, archVars, storeVars, store0,
                   last_drafter_output, only_score_30, rvVars, earlier_best,
                   memVars, cliVars, auxVars>>

\* novel = get_novel(); raise ValueError if there is none; chapter number
Start ==
    /\ pc = "start"
    /\ IF ~novel.exists
       THEN /\ pc' = "failed"
            /\ error' = "ValueError"
            /\ failed_at' = "get_novel"
            /\ UNCHANGED <<chapter_number, stage_exc>>
       ELSE /\ pc' = "director"
            /\ chapter_number' = IF arg_chapter_number = 0
                                 THEN Len(novel.chapters) + 1
                                 ELSE arg_chapter_number
            /\ UNCHANGED errVars
    /\ UNCHANGED <<arg_chapter_number, outline, context, loopVars, archVars,
                   storeVars, store0, histVars, rvVars, flowVars, memVars, cliVars, auxVars>>

DirectorReturns ==
    /\ pc = "director"
    /\ pc' = "plotter"
    /\ calls' = [calls EXCEPT !.director = @ + 1]
    /\ UNCHANGED <<arg_chapter_number, chapter_number, outline, context,
                   loopVars, archVars, storeVars, errVars, store0,
                   last_drafter_output, only_score_30, rvVars, flowVars, memVars, cliVars, auxVars>>

DirectorRaises == StageRaises("director", "director")

PlotterReturns ==
    /\ pc = "plotter"
    /\ \E o \in Outlines :
          outline' = [chapter_number |-> chapter_number,
                      characters_involved |-> o.characters_involved,
                      terms |-> o.terms]
    /\ pc' = "context"
    /\ calls' = [calls EXCEPT !.plotter = @ + 1]
    /\ UNCHANGED <<arg_chapter_number, chapter_number, context,
                   loopVars, archVars, storeVars, errVars, store0,
                   last_drafter_output, only_score_30, rvVars, flowVars, memVars, cliVars, auxVars>>

PlotterRaises == StageRaises("plotter", "plotter")

\* context = build_context(outline, previous_chapter); the version loop starts
BuildContextReturns ==
    /\ pc = "context"
    /\ \E keywords \in orders_of(extract_keywords(outline)) :
          /\ \E index \in IndexViews(collection, SeqToSet(keywords)),
                h \in HashFunctions(collection) :
                context' =
                    [built |-> TRUE,
                     previous_chapter |->
                         get_latest_chapter(novel).chapter_number,
                     relevant_memories |->
                         relevant_memories(keywords, index, h, mem_seen)]
          /\ calls' = [calls EXCEPT !.build_context = @ + 1,
                                    !.search = @ + search_calls(keywords)]
    /\ version' = 1
    /\ pc' = "writer"
    /\ UNCHANGED <<arg_chapter_number, chapter_number, outline,
                   current_content, reviews, best_review, final_review_result,
                   passed, review_result, archVars, storeVars, errVars, store0,
                   last_drafter_output, only_score_30, rvVars, flowVars, memVars, cliVars, auxVars>>

(***************************************************************************)
(* ChapterRunner.run, steps 4-5: the version / review loop                 *)
(***************************************************************************)
\* mutant of loop_next: one version too many
loop_next_off_by_one(v) ==
    IF v <= max_versions THEN [pc |-> "writer", version |-> v + 1]
    ELSE [pc |-> "after_loop", version |-> v]

\* mutant of loop_next: the context is built again for every version
loop_next_rebuild(v) ==
    IF v < max_versions THEN [pc |-> "context", version |-> v + 1]
    ELSE [pc |-> "after_loop", version |-> v]

\* the end of one iteration of "for version in range(1, max_versions + 1)"
loop_next(v) ==
    IF v < max_versions THEN [pc |-> "writer", version |-> v + 1]
    ELSE [pc |-> "after_loop", version |-> v]

\* mutant of break_target: the break is missing after the first review
break_target_missing == "review2"

\* "passed = True ... break"
break_target == "after_loop"

\* mutant of cleared_review: the review is not cleared
cleared_review_kept(frr) == frr

\* "final_review_result = None" after a mid-run revision
cleared_review(frr) == NoReview

\* mutants of after_loop: a run without a pass raises; the final revision is
\* never made; a run without a pass ends without archiving
after_loop_raising(p, frr) == IF ~p THEN "failed" ELSE "create_chapter"

after_loop_no_revision(p, frr) == "create_chapter"

after_loop_skip_archive(p, frr) == IF ~p THEN "archived" ELSE "create_chapter"

\* "if not passed and final_review_result:" after the loop
after_loop(p, frr) ==
    IF ~p /\ frr # NoReview THEN "final_revise" ELSE "create_chapter"

WriterRunReturns ==
    /\ pc = "writer"
    /\ current_content' = WriterRun(calls.run + 1)
    /\ last_drafter_output' = WriterRun(calls.run + 1)
    /\ reviews' = <<>>
    /\ pc' = "review1"
    /\ calls' = [calls EXCEPT !.run = @ + 1]
    /\ stage_args' = handed("run")
    /\ generation_requests' =
          generation_requests
              \cup {writer_request(outline, context, default_chapter_length)}
    /\ UNCHANGED <<arg_chapter_number, chapter_number, outline, context,
                   version, best_review, final_review_result, passed,
                   review_result, archVars, storeVars, errVars, store0,
                   only_score_30, rvVars, earlier_best, memVars, cliVars,
                   draft, delta_in, delta_out, graph>>

WriterRunRaises == StageRaises("writer", "run")

\* mutant of Review1Returns: a first review that fails is followed by the
\* revision at once
Review1Returns_revising ==
    /\ pc = "review1"
    /\ \E out \in ReviewerOutputs, st \in Statuses :
          LET review1 == ReviewResult(st, out.score, out.issues, current_content)
          IN /\ reviews' = Append(reviews, review1)
             /\ only_score_30' = (only_score_30 /\ out.score = 30)
             /\ IF review1.status = "pass"
                THEN /\ passed' = TRUE
                     /\ review_result' = review1
                     /\ pc' = break_target
                     /\ UNCHANGED best_review
                ELSE /\ pc' = "revise"
                     /\ best_review' = review1
                     /\ UNCHANGED <<passed, review_result>>
    /\ calls' = [calls EXCEPT !.review = @ + 1]
    /\ stage_args' = handed("review")
    /\ UNCHANGED <<arg_chapter_number, chapter_number, outline, context,
                   version, current_content, final_review_result,
                   archVars, storeVars, errVars, store0,
                   last_drafter_output, rvVars, earlier_best, memVars, cliVars, auxVars>>

Review1Returns ==
    /\ pc = "review1"
    /\ \E out \in ReviewerOutputs, st \in Statuses :
          LET review1 == ReviewResult(st, out.score, out.issues, current_content)
          IN /\ reviews' = Append(reviews, review1)
             /\ only_score_30' = (only_score_30 /\ out.score = 30)
             /\ IF review1.status = "pass"
                THEN /\ passed' = TRUE
                     /\ review_result' = review1
                     /\ pc' = break_target
                ELSE /\ pc' = "review2"
                     /\ UNCHANGED <<passed, review_result>>
    /\ calls' = [calls EXCEPT !.review = @ + 1]
    /\ stage_args' = handed("review")
    /\ UNCHANGED <<arg_chapter_number, chapter_number, outline, context,
                   version, current_content, best_review, final_review_result,
                   archVars, storeVars, errVars, store0,
                   last_drafter_output, rvVars, earlier_best, memVars, cliVars, auxVars>>

Review1Raises == StageRaises("review1", "review")

\* the second review and, when it fails too, the choice of the best review
Review2Returns ==
    /\ pc = "review2"
    /\ \E out \in ReviewerOutputs, st \in Statuses :
          LET review2 == ReviewResult(st, out.score, out.issues, current_content)
              best == max_by_score(Append(reviews, review2))
          IN /\ reviews' = Append(reviews, review2)
             /\ only_score_30' = (only_score_30 /\ out.score = 30)
             /\ IF review2.status = "pass"
                THEN /\ passed' = TRUE
                     /\ review_result' = review2
                     /\ pc' = break_target
                     /\ UNCHANGED <<version, best_review, final_review_result,
                                    earlier_best>>
                ELSE /\ best_review' = best
                     /\ review_result' = best
                     /\ earlier_best' = IF best_review.score > earlier_best
                                        THEN best_review.score
                                        ELSE earlier_best
                     /\ UNCHANGED passed
                     /\ IF best.status = "rewrite_needed"
                        THEN /\ final_review_result' = best
                             /\ pc' = loop_next(version).pc
                             /\ version' = loop_next(version).version
                        ELSE IF best.status = "revision_needed"
                        THEN /\ pc' = "revise"
                             /\ UNCHANGED <<version, final_review_result>>
                        ELSE /\ pc' = loop_next(version).pc
                             /\ version' = loop_next(version).version
                             /\ UNCHANGED final_review_result
    /\ calls' = [calls EXCEPT !.review = @ + 1]
    /\ stage_args' = handed("review")
    /\ UNCHANGED <<arg_chapter_number, chapter_number, outline, context,
                   current_content, archVars, storeVars, errVars, store0,
                   last_drafter_output, rvVars, memVars, cliVars, auxVars>>

Review2Raises == StageRaises("review2", "review")

\* mutant of ReviseReturns: the revised text goes back to the Reviewer
ReviseReturns_rereviewed ==
    /\ pc = "revise"
    /\ LET revised == WriterRevise(current_content,
                                   format_feedback_for_writer(best_review))
       IN /\ current_content' = revised
          /\ last_drafter_output' = revised
    /\ final_review_result' = cleared_review(final_review_result)
    /\ pc' = "review2"
    /\ calls' = [calls EXCEPT !.revise = @ + 1]
    /\ stage_args' = handed("revise")
    /\ UNCHANGED <<arg_chapter_number, chapter_number, outline, context,
                   version, reviews, best_review, passed, review_result,
                   archVars, storeVars, errVars, store0,
                   only_score_30, rvVars, earlier_best, memVars, cliVars, auxVars>>

\* current_content = writer.revise(current_content, feedback of best_review)
ReviseReturns ==
    /\ pc = "revise"
    /\ LET revised == WriterRevise(current_content,
                                   format_feedback_for_writer(best_review))
       IN /\ current_content' = revised
          /\ last_drafter_output' = revised
    /\ final_review_result' = cleared_review(final_review_result)
    /\ pc' = loop_next(version).pc
    /\ version' = loop_next(version).version
    /\ calls' = [calls EXCEPT !.revise = @ + 1]
    /\ stage_args' = handed("revise")
    /\ UNCHANGED <<arg_chapter_number, chapter_number, outline, context,
                   reviews, best_review, passed, review_result,
                   archVars, storeVars, errVars, store0,
                   only_score_30, rvVars, earlier_best, memVars, cliVars, auxVars>>

ReviseRaises == StageRaises("revise", "revise")

AfterLoop ==
    /\ pc = "after_loop"
    /\ pc' = after_loop(passed, final_review_result)
    /\ UNCHANGED <<arg_chapter_number, chapter_number, outline, context,
                   loopVars, archVars, storeVars, errVars, store0,
                   histVars, rvVars, flowVars, memVars, cliVars, auxVars>>

\* the final revision of the fallback
FinalReviseReturns ==
    /\ pc = "final_revise"
    /\ LET revised == WriterRevise(current_content,
                          format_feedback_for_writer(final_review_result))
       IN /\ current_content' = revised
          /\ last_drafter_output' = revised
    /\ pc' = "create_chapter"
    /\ calls' = [calls EXCEPT !.revise = @ + 1]
    /\ stage_args' = handed("revise")
    /\ UNCHANGED <<arg_chapter_number, chapter_number, outline, context,
                   version, reviews, best_review, final_review_result, passed,
                   review_result, archVars, storeVars, errVars, store0,
                   only_score_30, rvVars, earlier_best, memVars, cliVars, auxVars>>

FinalReviseRaises == StageRaisesUncaught("final_revise", "revise")

\* mutant of CreateChapter: the chapter holds the first version generated
CreateChapter_first_version ==
    /\ pc = "create_chapter"
    /\ chapter' = Chapter(chapter_number, WriterRun(1))
    /\ pc' = "archive"
    /\ UNCHANGED <<arg_chapter_number, chapter_number, outline, context,
                   loopVars, archive_result, apply_step, apply_i, returned,
                   storeVars, errVars, store0, histVars, rvVars, flowVars, memVars, cliVars, auxVars>>

\* mutant of CreateChapter: the chapter is saved as soon as it is created
CreateChapter_saving ==
    /\ pc = "create_chapter"
    /\ chapter' = Chapter(chapter_number, current_content)
    /\ novel' = save_chapter(novel, Chapter(chapter_number, current_content))
    /\ pc' = "archive"
    /\ UNCHANGED <<arg_chapter_number, chapter_number, outline, context,
                   loopVars, archive_result, apply_step, apply_i, returned,
                   timeline, foreshadowing, collection, errVars, store0,
                   histVars, rvVars, flowVars, memVars, cliVars, auxVars>>

\* step 6: chapter = Chapter(chapter_number, content=current_content, ...)
CreateChapter ==
    /\ pc = "create_chapter"
    /\ chapter' = Chapter(chapter_number, current_content)
    /\ pc' = "archive"
    /\ UNCHANGED <<arg_chapter_number, chapter_number, outline, context,
                   loopVars, archive_result, apply_step, apply_i, returned,
                   storeVars, errVars, store0, histVars, rvVars, flowVars, memVars, cliVars, auxVars>>


\* one of the VectorStore.search calls of build_context raises (the index is
\* unavailable): neither _search_relevant_memories nor build_context nor run
\* has a try around it
BuildContextRaises ==
    /\ pc = "context"
    /\ \E keywords \in orders_of(extract_keywords(outline)) :
          \E n \in 1..search_calls(keywords) :
              calls' = [calls EXCEPT !.build_context = @ + 1,
                                    !.search = @ + n]
    /\ pc' = "failed"
    /\ error' = "StoreError"
    /\ failed_at' = "context"
    /\ UNCHANGED <<arg_chapter_number, chapter_number, outline, context,
                   loopVars, archVars, storeVars, stage_exc, store0,
                   last_drafter_output, only_score_30, rvVars, flowVars, memVars, cliVars, auxVars>>

(***************************************************************************)
(* Step 7: ArchivistAgent.run = the LLM call, then _apply_updates          *)
(***************************************************************************)
\* mutant of apply_order: the chapter is saved first
apply_order_save_first ==
    <<"save_chapter", "add_chapter", "character_updates", "key_events",
      "new_foreshadowing", "resolved_foreshadowing">>

\* the store writes of _apply_updates, in the order of the code
apply_order ==
    <<"add_chapter", "character_updates", "key_events", "new_foreshadowing",
      "resolved_foreshadowing", "save_chapter">>

\* how many iterations the part of _apply_updates named kind makes
item_count(kind, r) ==
    CASE kind = "character_updates" -> Len(r.character_updates)
      [] kind = "key_events" -> Len(r.key_events)
      [] kind = "new_foreshadowing" -> Len(r.new_foreshadowing)
      [] kind = "resolved_foreshadowing" -> Len(r.resolved_foreshadowing)
      [] OTHER -> 1

\* the next iteration at or after iteration i of part step
RECURSIVE apply_pos(_, _, _)
apply_pos(step, i, r) ==
    IF step > Len(apply_order) THEN <<step, 1>>
    ELSE IF i <= item_count(apply_order[step], r) THEN <<step, i>>
    ELSE apply_pos(step + 1, 1, r)

\* result.entities_mentioned[:5]
first5(s) == SubSeq(s, 1, IF Len(s) < 5 THEN Len(s) ELSE 5)

\* the stores after iteration i of the part named kind
apply_write(kind, i, st, ch, r) ==
    CASE kind = "add_chapter" ->
           [st EXCEPT !.collection =
               add_chapter(@, ch.chapter_number, ch.content,
                           r.chapter_summary, r.entities_mentioned)]
      [] kind = "character_updates" ->
           [st EXCEPT !.novel =
               apply_character_update(@, r.character_updates[i],
                                      ch.chapter_number)]
      [] kind = "key_events" ->
           [st EXCEPT !.timeline =
               add_timeline_event(@,
                   [chapter_number |-> ch.chapter_number,
                    event |-> r.key_events[i],
                    characters_involved |-> first5(r.entities_mentioned),
                    importance |-> "normal"])]
      [] kind = "new_foreshadowing" ->
           [st EXCEPT !.foreshadowing =
               add_foreshadowing(@,
                   [id |-> <<"fs", ch.chapter_number, Len(r.new_foreshadowing)>>,
                    description |-> r.new_foreshadowing[i],
                    planted_chapter |-> ch.chapter_number,
                    resolved_chapter |-> 0,
                    status |-> "planted"])]
      [] kind = "resolved_foreshadowing" ->
           [st EXCEPT !.foreshadowing =
               resolve_foreshadowing(@, r.resolved_foreshadowing[i],
                                     ch.chapter_number)]
      [] kind = "save_chapter" ->
           [st EXCEPT !.novel = save_chapter(@, ch)]

\* iteration i of the part named kind calls a writing store method
is_store_call(kind, i, st, ch, r) ==
    CASE kind = "add_chapter" -> split_text(ch.content) # <<>>
      [] kind = "character_updates" ->
           writes_character(st.novel, r.character_updates[i])
      [] OTHER -> TRUE

\* result = self.invoke(prompt); chapter.summary = result.chapter_summary
ArchivistInvokeReturns ==
    /\ pc = "archive"
    /\ \E r \in ArchiveResults :
          /\ archive_result' = r
          /\ chapter' = [chapter EXCEPT !.summary = r.chapter_summary]
          /\ apply_step' = apply_pos(1, 1, r)[1]
          /\ apply_i' = apply_pos(1, 1, r)[2]
    /\ pc' = "apply"
    /\ calls' = [calls EXCEPT !.archivist = @ + 1]
    /\ UNCHANGED <<arg_chapter_number, chapter_number, outline, context,
                   loopVars, returned, storeVars, errVars, store0,
                   last_drafter_output, only_score_30, rvVars, flowVars, memVars, cliVars, auxVars>>

ArchivistInvokeRaises == StageRaisesUncaught("archive", "archivist")

\* one iteration of _apply_updates
ApplyWrite ==
    /\ pc = "apply"
    /\ LET st == apply_write(apply_order[apply_step], apply_i, CurrentStores,
                             chapter, archive_result)
           pos == apply_pos(apply_step, apply_i + 1, archive_result)
       IN /\ novel' = st.novel
          /\ timeline' = st.timeline
          /\ foreshadowing' = st.foreshadowing
          /\ collection' = st.collection
          /\ apply_step' = pos[1]
          /\ apply_i' = pos[2]
          /\ pc' = IF pos[1] > Len(apply_order) THEN "archived" ELSE "apply"
    /\ UNCHANGED <<arg_chapter_number, chapter_number, outline, context,
                   loopVars, chapter, archive_result, returned, errVars,
                   store0, histVars, rvVars, flowVars, memVars, cliVars, auxVars>>

\* a store method called by _apply_updates raises (file or index I/O): the
\* write it was making is persisted or not
ApplyWriteRaises ==
    /\ pc = "apply"
    /\ is_store_call(apply_order[apply_step], apply_i, CurrentStores,
                     chapter, archive_result)
    /\ \E st \in {CurrentStores,
                  apply_write(apply_order[apply_step], apply_i, CurrentStores,
                              chapter, archive_result)} :
          /\ novel' = st.novel
          /\ timeline' = st.timeline
          /\ foreshadowing' = st.foreshadowing
          /\ collection' = st.collection
    /\ pc' = "failed"
    /\ error' = "StoreError"
    /\ stage_exc' = "StoreError"
    /\ failed_at' = apply_order[apply_step]
    /\ UNCHANGED <<arg_chapter_number, chapter_number, outline, context,
                   loopVars, archVars, store0, histVars, rvVars, flowVars, memVars, cliVars, auxVars>>

\* chapter.summary = archive_result.chapter_summary; return chapter
Finish ==
    /\ pc = "archived"
    /\ returned' = [chapter EXCEPT !.summary = archive_result.chapter_summary]
    /\ pc' = "done"
    /\ UNCHANGED <<arg_chapter_number, chapter_number, outline, context,
                   loopVars, chapter, archive_result, apply_step, apply_i,
                   storeVars, errVars, store0, histVars, rvVars, flowVars, memVars, cliVars, auxVars>>

Returns ==
    \/ Start
    \/ DirectorReturns
    \/ PlotterReturns
    \/ BuildContextReturns
    \/ WriterRunReturns
    \/ Review1Returns
    \/ Review2Returns
    \/ ReviseReturns
    \/ AfterLoop
    \/ FinalReviseReturns
    \/ CreateChapter
    \/ ArchivistInvokeReturns
    \/ ApplyWrite
    \/ Finish

Raises ==
    \/ DirectorRaises
    \/ PlotterRaises
    \/ BuildContextRaises
    \/ WriterRunRaises
    \/ Review1Raises
    \/ Review2Raises
    \/ ReviseRaises
    \/ FinalReviseRaises
    \/ ArchivistInvokeRaises
    \/ ApplyWriteRaises

Next == Returns \/ Raises

Spec == Init /\ [][Next]_vars

\* the runs in which no call raises; the program is sequential and every
\* call returns, so a step that is possible is eventually taken
InitNoRaise ==
    /\ pc = "start"
    /\ \E c \in {r \in RunCalls : r[1].novel.exists} : RunInit(c[1], c[2])
    /\ rv_in = NoRvIn
    /\ rv_out = NoReview
    /\ MemIdle
    /\ CliIdle
    /\ AuxIdle

SpecNoRaise == InitNoRaise /\ [][Returns]_vars /\ WF_vars(Returns)

TypeOK ==
    /\ pc \in {"start", "director", "plotter", "context", "writer", "review1",
               "review2", "revise", "after_loop", "final_revise",
               "create_chapter", "archive", "apply", "archived", "done",
               "failed"}
    /\ version \in 0..max_versions
    /\ passed \in BOOLEAN
    /\ Len(reviews) <= max_reviews_per_version


(***************************************************************************)
(* Construction of a ReviewResult from any declared status, score and     *)
(* issue list                                                              *)
(***************************************************************************)
RvInputs ==
    [status : Statuses, score : MinScore..MaxScore,
     issues : BSeq(Severities, MaxIssues)]

InitReview ==
    /\ pc = "idle"
    /\ \E st \in {s \in InitialStores : ~s.novel.exists} : RunInit(st, 0)
    /\ rv_in \in RvInputs
    /\ rv_out = NoReview
    /\ MemIdle
    /\ CliIdle
    /\ AuxIdle

Construct ==
    /\ pc = "idle"
    /\ rv_out = NoReview
    /\ rv_out' = ReviewResult(rv_in.status, rv_in.score, rv_in.issues, NoText)
    /\ UNCHANGED <<pc, arg_chapter_number, chapter_number, outline, context,
                   loopVars, archVars, storeVars, errVars, store0, histVars,
                   rv_in, flowVars, memVars, cliVars, auxVars>>

NextReview == Construct

ReviewSpec == InitReview /\ [][NextReview]_vars

(***************************************************************************)
(* ContextBuilder._search_relevant_memories called repeatedly with one     *)
(* keyword list on one index                                               *)
(***************************************************************************)
MaxKeywords == 2

MaxCalls == 2

MemKeywords == {"k1", "k2"}

\* four chunks, three of them with the same first 100 characters
MemCollection ==
    {[id |-> <<1, 0>>, document |-> [prefix |-> "a", rest |-> 1],
      chapter_id |-> 1, summary |-> "old", entities |-> <<"hero">>],
     [id |-> <<1, 1>>, document |-> [prefix |-> "a", rest |-> 2],
      chapter_id |-> 1, summary |-> "old", entities |-> <<"hero">>],
     [id |-> <<1, 2>>, document |-> [prefix |-> "a", rest |-> 3],
      chapter_id |-> 1, summary |-> "old", entities |-> <<"hero">>],
     [id |-> <<2, 0>>, document |-> [prefix |-> "b", rest |-> 1],
      chapter_id |-> 2, summary |-> "old", entities |-> <<>>]}

MemInputs ==
    [keywords : BSeq(MemKeywords, MaxKeywords),
     max_results : {1, max_memories},
     index : IndexViews(MemCollection, MemKeywords),
     hash : HashFunctions(MemCollection)]

InitMem ==
    /\ pc = "idle"
    /\ RunInit(Stores([exists |-> FALSE, chapters |-> <<>>,
                       characters |-> <<>>], <<>>, <<>>, MemCollection), 0)
    /\ rv_in = NoRvIn
    /\ rv_out = NoReview
    /\ mem_in \in MemInputs
    /\ mem_out = <<>>
    /\ mem_seen = {}
    /\ CliIdle
    /\ AuxIdle

SearchRelevantMemories ==
    /\ pc = "idle"
    /\ mem_in # NoMemIn
    /\ Len(mem_out) < MaxCalls
    /\ mem_out' = Append(mem_out,
                         search_relevant_memories(mem_in.keywords,
                             mem_in.max_results, mem_in.index, mem_in.hash,
                             mem_seen))
    /\ mem_seen' = seen_after(mem_in.keywords, mem_in.index, mem_in.hash,
                            mem_seen)
    /\ UNCHANGED <<pc, arg_chapter_number, chapter_number, outline, context,
                   loopVars, archVars, storeVars, errVars, store0, histVars,
                   rvVars, flowVars, mem_in, cliVars, auxVars>>

NextMem == SearchRelevantMemories

MemSpec == InitMem /\ [][NextMem]_vars

(***************************************************************************)
(* _apply_updates on the relationship and skill deltas of one              *)
(* CharacterUpdate of a known character                                    *)
(***************************************************************************)
MaxDeltas == 2

\* every string of at most three characters
DeltaStrings == BSeq(DeltaChars, 3)

\* char.relationships, char.skills before the update: empty, or one entry
DeltaDicts == {<<>>, dict_set(<<>>, <<"a">>, <<"old">>)}

\* the deltas of one kind, relationship or skill
DeltaInputs ==
    {d \in [relationships : DeltaDicts, skills : DeltaDicts,
            relationship_updates : BSeq(DeltaStrings, MaxDeltas),
            skill_updates : BSeq(DeltaStrings, MaxDeltas)] :
        \/ d.skill_updates = <<>> /\ d.skills = <<>>
        \/ d.relationship_updates = <<>> /\ d.relationships = <<>>}

InitDelta ==
    /\ pc = "idle"
    /\ RunInit(Stores([exists |-> FALSE, chapters |-> <<>>,
                       characters |-> <<>>], <<>>, <<>>, {}), 0)
    /\ rv_in = NoRvIn
    /\ rv_out = NoReview
    /\ MemIdle
    /\ CliIdle
    /\ draft = NoDraft
    /\ delta_in \in DeltaInputs
    /\ delta_out = NoDeltaOut
    /\ graph = NoGraph

\* "if update.relationship_updates: ..." and "if update.skill_updates: ..."
ApplyDeltas ==
    /\ pc = "idle"
    /\ delta_in # NoDeltaIn
    /\ ~delta_out.applied
    /\ delta_out' =
          [relationships |->
               new_relationships(delta_in.relationships,
                                 delta_in.relationship_updates),
           skills |-> new_skills(delta_in.skills, delta_in.skill_updates),
           applied |-> TRUE]
    /\ UNCHANGED <<pc, arg_chapter_number, chapter_number, outline, context,
                   loopVars, archVars, storeVars, errVars, store0, histVars,
                   rvVars, flowVars, memVars, cliVars, draft, delta_in,
                   generation_requests, graph>>

NextDelta == ApplyDeltas

DeltaSpec == InitDelta /\ [][NextDelta]_vars

(***************************************************************************)
(* WriterAgent._generate_with_continuation: one Drafter call               *)
(***************************************************************************)
\* def _generate_with_continuation(self, prompt, max_continuations: int = 3)
max_continuations == 3

\* full_content[-3000:]
tail_chars == 3000

\* a text is a sequence of blocks of BlockChars characters
BlockChars == 1500

\* a block of letters, a block of letters that ends with a full stop, a block
\* of blanks
Blocks == {"a", ".", " "}

\* the characters of terminal_punctuation
terminal_punctuation == {"."}

MaxChunkBlocks == 2

\* what one backend invocation can return
BackendOutputs == BSeq(Blocks, MaxChunkBlocks)

\* mutant of tail: the whole text is sent
tail_full(s) == s

\* s[-3000:]
tail(s) ==
    LET n == tail_chars \div BlockChars
    IN IF Len(s) <= n THEN s ELSE SubSeq(s, Len(s) - n + 1, Len(s))

\* stripped_content.endswith(terminal_punctuation)
endswith_terminal(s) == s # <<>> /\ s[Len(s)] \in terminal_punctuation

\* the loop goes on: neither of its two break conditions holds
seems_truncated(full_content) ==
    /\ strip(full_content) # <<>>
    /\ ~endswith_terminal(strip(full_content))

InitDraft ==
    /\ pc = "idle"
    /\ RunInit(Stores([exists |-> FALSE, chapters |-> <<>>,
                       characters |-> <<>>], <<>>, <<>>, {}), 0)
    /\ rv_in = NoRvIn
    /\ rv_out = NoReview
    /\ MemIdle
    /\ CliIdle
    /\ draft = [NoDraft EXCEPT !.state = "call"]
    /\ delta_in = NoDeltaIn
    /\ delta_out = NoDeltaOut
    /\ graph = NoGraph

DraftUnchanged ==
    UNCHANGED <<pc, arg_chapter_number, chapter_number, outline, context,
                loopVars, archVars, storeVars, errVars, store0, histVars,
                rvVars, flowVars, memVars, cliVars, delta_in, delta_out,
                generation_requests, graph>>

\* full_content = str(self.invoke(prompt, **kwargs))
DraftInvoke ==
    /\ draft.state = "call"
    /\ \E out \in BackendOutputs :
          draft' = [draft EXCEPT !.full_content = out, !.chunk = out,
                                 !.invocations = 1, !.state = "loop"]
    /\ DraftUnchanged

\* one iteration of "for _ in range(max_continuations)" that does not break
DraftContinue ==
    /\ draft.state = "loop"
    /\ draft.continuations < max_continuations
    /\ seems_truncated(draft.full_content)
    /\ \E chunk \in BackendOutputs :
          draft' = [draft EXCEPT !.anchor = tail(draft.full_content),
                                 !.chunk = chunk,
                                 !.full_content = @ \o chunk,
                                 !.invocations = @ + 1,
                                 !.continuations = @ + 1]
    /\ DraftUnchanged

\* a break, or the end of the range: return full_content
DraftReturn ==
    /\ draft.state = "loop"
    /\ \/ draft.continuations = max_continuations
       \/ ~seems_truncated(draft.full_content)
    /\ draft' = [draft EXCEPT !.state = "returned"]
    /\ DraftUnchanged

\* self.invoke raises: the exception leaves _generate_with_continuation
DraftRaises ==
    /\ \/ draft.state = "call"
       \/ /\ draft.state = "loop"
          /\ draft.continuations < max_continuations
          /\ seems_truncated(draft.full_content)
    /\ draft' = [draft EXCEPT !.state = "raised",
                             !.invocations = @ + 1]
    /\ DraftUnchanged

NextDraft == DraftInvoke \/ DraftContinue \/ DraftReturn \/ DraftRaises

DraftSpec == InitDraft /\ [][NextDraft]_vars

(***************************************************************************)
(* StructuredStore.save_chapter called any number of times on one store    *)
(***************************************************************************)
MaxChapterNumber == 3

\* the text of a chapter saved by a call
NewText == [gen |-> 1, revs |-> <<>>]

\* the chapter lists a store can hold when it is loaded: the chapters of a
\* set of chapter numbers, in ascending order
RECURSIVE LoadedChapters(_)
LoadedChapters(numbers) ==
    IF numbers = {} THEN <<>>
    ELSE LET n == CHOOSE x \in numbers : \A y \in numbers : y <= x
         IN Append(LoadedChapters(numbers \ {n}), OldChapter(n))

InitSave ==
    /\ pc = "store"
    /\ \E nv \in {[exists |-> FALSE, chapters |-> <<>>, characters |-> <<>>]}
                 \cup {[exists |-> TRUE, chapters |-> LoadedChapters(numbers),
                        characters |-> <<>>] :
                           numbers \in SUBSET (1..MaxChapterNumber)} :
          RunInit(Stores(nv, <<>>, <<>>, {}), 0)
    /\ rv_in = NoRvIn
    /\ rv_out = NoReview
    /\ MemIdle
    /\ CliIdle
    /\ AuxIdle

\* structured_store.save_chapter(chapter)
SaveChapter ==
    /\ pc = "store"
    /\ novel.exists
    /\ \E n \in 1..MaxChapterNumber, text \in {OldText, NewText} :
          /\ chapter' = Chapter(n, text)
          /\ novel' = save_chapter(novel, Chapter(n, text))
    /\ store0' = CurrentStores
    /\ UNCHANGED <<pc, arg_chapter_number, chapter_number, outline, context,
                   loopVars, archive_result, apply_step, apply_i, returned,
                   timeline, foreshadowing, collection, errVars, histVars,
                   rvVars, flowVars, memVars, cliVars, auxVars>>

\* if not self._novel: raise ValueError("Novel not initialized")
SaveChapterRaises ==
    /\ pc = "store"
    /\ ~novel.exists
    /\ pc' = "failed"
    /\ error' = "ValueError"
    /\ failed_at' = "save_chapter"
    /\ UNCHANGED <<arg_chapter_number, chapter_number, outline, context,
                   loopVars, archVars, storeVars, stage_exc, store0, histVars,
                   rvVars, flowVars, memVars, cliVars, auxVars>>

NextSave == SaveChapter \/ SaveChapterRaises

SaveSpec == InitSave /\ [][NextSave]_vars

(***************************************************************************)
(* ChapterRunner.run called with max_review_attempts and max_retries       *)
(* (None: -1) on a novel that has chapter 1                                *)
(***************************************************************************)
\* if max_retries is not None: max_review_attempts = max_retries
resolve_attempts(attempts, max_retries) ==
    IF max_retries # -1 THEN max_retries ELSE attempts

\* the values examined for max_review_attempts and for max_retries
AttemptArgs == {1, DefaultMaxReviewAttempts}
RetryArgs == {-1, 1, 2}

InitRetry ==
    /\ pc = "start"
    /\ \E st \in {x \in InitialStores : Len(x.novel.chapters) = 1} :
          RunInit(st, 0)
    /\ \E a \in AttemptArgs, r \in RetryArgs :
          max_review_attempts = resolve_attempts(a, r)
    /\ cli = NoCli
    /\ rv_in = NoRvIn
    /\ rv_out = NoReview
    /\ MemIdle
    /\ AuxIdle

RetrySpec == InitRetry /\ [][Next]_vars

(***************************************************************************)
(* The write commands of the CLI: write, write-c (_write_single_chapter)   *)
(* and write-n, write-all (_batch_write).  The project is found; its       *)
(* outline.md gives the chapter numbers to write, its chapters directory   *)
(* those already generated.                                                *)
(***************************************************************************)
MaxCount == 2

\* the chapter numbers of the "## 第N章" headers of outline.md, in file order
OutlineFiles == {<<>>, <<1, 2>>, <<2, 1>>}

\* --retries
CliRetries == {1, DefaultMaxReviewAttempts}

\* the command line: write [-c N], write-c N, write-n COUNT, write-all
\* (chapter = 0: no -c; count = -1: None)
CommandLines ==
    [command : {"write"}, chapter : {0, 1, 3}, count : {-1},
     max_retries : CliRetries]
    \cup [command : {"write-c"}, chapter : {1, 3}, count : {-1},
          max_retries : CliRetries]
    \cup [command : {"write-n"}, chapter : {0}, count : 0..MaxCount,
          max_retries : CliRetries]
    \cup [command : {"write-all"}, chapter : {0}, count : {-1},
          max_retries : CliRetries]

is_batch(c) == c.command \in {"write-n", "write-all"}

\* [o for o in outlines if o["chapter_number"] not in generated]
RECURSIVE not_generated(_, _)
not_generated(outlines, generated) ==
    IF outlines = <<>> THEN <<>>
    ELSE IF Head(outlines) \in generated
         THEN not_generated(Tail(outlines), generated)
         ELSE <<Head(outlines)>> \o not_generated(Tail(outlines), generated)

\* the chapters the command will attempt, and the exit code when it stops
\* before attempting any (-1: it goes on)
selected(c) ==
    IF is_batch(c)
    THEN LET pending == not_generated(c.outlines, c.generated)
         IN IF c.outlines = <<>> \/ pending = <<>>
            THEN [pending |-> <<>>, exit_code |-> 0]
            ELSE [pending |-> IF c.count # -1 THEN firstN(pending, c.count)
                              ELSE pending,
                  exit_code |-> -1]
    ELSE IF c.chapter = 0
         THEN LET pending == not_generated(c.outlines, c.generated)
              IN IF pending = <<>>
                 THEN [pending |-> <<>>, exit_code |-> 0]
                 ELSE [pending |-> <<Head(pending)>>, exit_code |-> -1]
         ELSE IF c.chapter \in SeqToSet(c.outlines)
              THEN [pending |-> <<c.chapter>>, exit_code |-> -1]
              ELSE [pending |-> <<>>, exit_code |-> 1]

\* the stores of a project: a novel without chapters, or with chapter 1
ProjectStores == {st \in InitialStores : st.novel.exists}

InitCli ==
    /\ pc = "cli"
    /\ \E st \in ProjectStores, line \in CommandLines, o \in OutlineFiles :
          /\ RunInit(st, 0)
          /\ cli = [NoCli EXCEPT
                       !.command = line.command, !.chapter = line.chapter,
                       !.count = line.count, !.max_retries = line.max_retries,
                       !.outlines = o,
                       !.generated = {ch.chapter_number :
                                         ch \in SeqToSet(st.novel.chapters)},
                       !.loaded = st, !.stores_after = st]
    /\ max_review_attempts = DefaultMaxReviewAttempts
    /\ rv_in = NoRvIn
    /\ rv_out = NoReview
    /\ MemIdle
    /\ AuxIdle

CliUnchanged ==
    UNCHANGED <<arg_chapter_number, chapter_number, outline, context, loopVars,
                archVars, storeVars, errVars, store0, histVars, rvVars,
                flowVars, memVars, max_review_attempts, auxVars>>

\* the command finds the chapters to write, or exits
CliStart ==
    /\ pc = "cli"
    /\ cli' = [cli EXCEPT !.pending = selected(cli).pending,
                          !.exit_code = selected(cli).exit_code]
    /\ pc' = IF selected(cli).exit_code = -1 THEN "next" ELSE "exit"
    /\ CliUnchanged

\* mutant of runner_stores: every run works on the stores as loaded
runner_stores_reloaded(current, loaded) == loaded

\* ChapterRunner(vector_store=project.vector_store,
\*               structured_store=project.structured_store): every run works
\* on the store objects of the project
runner_stores(current, loaded) == current

\* runner.run(chapter_goal, chapter_number = n, max_retries = m) is called
RunBegin(n, m) ==
    LET st == runner_stores(CurrentStores, cli.loaded) IN
    /\ pc' = "start"
    /\ arg_chapter_number' = n
    /\ max_review_attempts' = m
    /\ chapter_number' = 0
    /\ outline' = NoOutline
    /\ context' = NoContext
    /\ version' = 0
    /\ current_content' = NoText
    /\ reviews' = <<>>
    /\ best_review' = NoReview
    /\ final_review_result' = NoReview
    /\ passed' = FALSE
    /\ review_result' = NoReview
    /\ chapter' = NoChapter
    /\ archive_result' = NoArchiveResult
    /\ apply_step' = 0
    /\ apply_i' = 0
    /\ returned' = NoChapter
    /\ error' = "none"
    /\ failed_at' = "none"
    /\ stage_exc' = "none"
    /\ novel' = st.novel
    /\ timeline' = st.timeline
    /\ foreshadowing' = st.foreshadowing
    /\ collection' = st.collection
    /\ store0' = st
    /\ calls' = NoCalls
    /\ last_drafter_output' = NoText
    /\ only_score_30' = TRUE
    /\ stage_args' = {}
    /\ earlier_best' = -1
    /\ generation_requests' = {}
    /\ UNCHANGED <<rvVars, memVars, draft, delta_in, delta_out, graph>>

\* the next chapter of pending: "for chapter_info in pending" up to the call
\* of runner.run (for write and write-c: the one chapter)
ChapterBegin ==
    /\ pc = "next"
    /\ cli.i < Len(cli.pending)
    /\ cli' = [cli EXCEPT !.i = @ + 1,
                          !.attempted = Append(@, cli.pending[cli.i + 1])]
    /\ RunBegin(cli.pending[cli.i + 1], cli.max_retries)

\* in the runs of a command the Reviewer passes every text, the Plotter
\* names a character, the Archivist reports a summary and at most one event,
\* and a call that raises raises one kind of exception
CliRunInputs ==
    /\ \A k \in 1..Len(reviews) : reviews[k].status = "pass"
    /\ outline.characters_involved # <<>> \/ outline = NoOutline
    /\ archive_result.character_updates = <<>>
    /\ archive_result.new_foreshadowing = <<>>
    /\ archive_result.resolved_foreshadowing = <<>>
    /\ stage_exc # "TypeError"

\* a step of the run in progress
RunStep ==
    /\ cli.command # "none"
    /\ Next
    /\ CliRunInputs'

\* run returned and project.save_chapter wrote chapters/NNN.md
ChapterCompleted ==
    /\ pc = "done"
    /\ cli' = [cli EXCEPT !.generated = @ \cup {returned.chapter_number},
                          !.completed = @ + 1,
                          !.stores_after = CurrentStores,
                          !.exit_code = IF is_batch(cli) THEN @ ELSE 0]
    /\ pc' = IF is_batch(cli) THEN "next" ELSE "exit"
    /\ CliUnchanged

\* mutant of ChapterFailed: the batch stops at the first failure
ChapterFailed_aborting ==
    /\ pc \in {"done", "failed"}
    /\ cli' = [cli EXCEPT !.failed = @ + 1,
                          !.stores_after = CurrentStores,
                          !.exit_code = 1]
    /\ pc' = "exit"
    /\ CliUnchanged

\* except Exception: run raised, or project.save_chapter raised after run
\* returned; _write_single_chapter exits with 1, _batch_write counts the
\* failure and continues
ChapterFailed ==
    /\ pc \in {"done", "failed"}
    /\ cli' = [cli EXCEPT !.failed = @ + 1,
                          !.stores_after = CurrentStores,
                          !.exit_code = IF is_batch(cli) THEN @ ELSE 1]
    /\ pc' = IF is_batch(cli) THEN "next" ELSE "exit"
    /\ CliUnchanged

\* the loop of _batch_write is over: the statistics are printed and the
\* function returns
BatchEnd ==
    /\ pc = "next"
    /\ cli.i = Len(cli.pending)
    /\ cli' = [cli EXCEPT !.exit_code = 0]
    /\ pc' = "exit"
    /\ CliUnchanged

NextCli ==
    \/ CliStart
    \/ ChapterBegin
    \/ RunStep
    \/ ChapterCompleted
    \/ ChapterFailed
    \/ BatchEnd

CliSpec == InitCli /\ [][NextCli]_vars

(***************************************************************************)
(* ArchivistAgent._apply_updates as a whole, called for one chapter after  *)
(* another on the stores of a project, and called again with the same      *)
(* chapter and the same ArchiveResult                                      *)
(***************************************************************************)
MaxArchivals == 2

\* the writes of _apply_updates from iteration i of part step on
RECURSIVE apply_from(_, _, _, _, _)
apply_from(step, i, st, ch, r) ==
    LET pos == apply_pos(step, i, r)
    IN IF pos[1] > Len(apply_order) THEN st
       ELSE apply_from(pos[1], pos[2] + 1,
                       apply_write(apply_order[pos[1]], pos[2], st, ch, r),
                       ch, r)

\* _apply_updates(chapter, result): chapter.summary is set, then the writes
apply_updates(st, ch, r) ==
    apply_from(1, 1, st, [ch EXCEPT !.summary = r.chapter_summary], r)

\* the ArchiveResults examined: up to two new foreshadowings, one event, one
\* update of a known character, one resolution
ArchivalInputs ==
    [chapter_summary : {"summary"},
     key_events : {<<>>, <<"event">>},
     character_updates :
         {<<>>, <<[EmptyUpdate("hero") EXCEPT !.location = "cave"]>>},
     new_foreshadowing : {<<>>, <<"omen">>, <<"omen", "sign">>},
     resolved_foreshadowing : {<<>>, <<<<"fs", 1, 1>>>>},
     entities_mentioned : {<<"hero">>}]

InitArchive ==
    /\ pc = "archival"
    /\ \E st \in ProjectStores : RunInit(st, 0)
    /\ rv_in = NoRvIn
    /\ rv_out = NoReview
    /\ MemIdle
    /\ CliIdle
    /\ AuxIdle

\* _apply_updates(chapter, result) for a finalized chapter; apply_step
\* counts the calls, store0 holds the stores before the call
ApplyUpdates ==
    /\ pc = "archival"
    /\ apply_step < MaxArchivals
    /\ \E n \in 1..2, r \in ArchivalInputs :
          LET ch == Chapter(n, NewText)
              st == apply_updates(CurrentStores, ch, r)
          IN /\ chapter' = [ch EXCEPT !.summary = r.chapter_summary]
             /\ archive_result' = r
             /\ novel' = st.novel
             /\ timeline' = st.timeline
             /\ foreshadowing' = st.foreshadowing
             /\ collection' = st.collection
    /\ store0' = CurrentStores
    /\ apply_step' = apply_step + 1
    /\ apply_i' = 0
    /\ UNCHANGED <<pc, arg_chapter_number, chapter_number, outline, context,
                   loopVars, returned, errVars, histVars, rvVars, flowVars,
                   memVars, cliVars, auxVars>>

\* _apply_updates called again with the chapter and the result of the call
\* before (apply_i = 1 marks the repetition)
ApplyAgain ==
    /\ pc = "archival"
    /\ apply_step >= 1
    /\ apply_i = 0
    /\ LET st == apply_updates(CurrentStores, chapter, archive_result)
       IN /\ novel' = st.novel
          /\ timeline' = st.timeline
          /\ foreshadowing' = st.foreshadowing
          /\ collection' = st.collection
    /\ store0' = CurrentStores
    /\ apply_i' = 1
    /\ UNCHANGED <<pc, arg_chapter_number, chapter_number, outline, context,
                   loopVars, chapter, archive_result, apply_step, returned,
                   errVars, histVars, rvVars, flowVars, memVars, cliVars,
                   auxVars>>

NextArchive == ApplyUpdates \/ ApplyAgain

ArchiveSpec == InitArchive /\ [][NextArchive]_vars

(***************************************************************************)
(* workflow/graph.py: should_continue_review and the graph compiled by     *)
(* build_chapter_graph, invoked with a ChapterState.  Every node is the    *)
(* placeholder "lambda x: x": it leaves the state as it is.  (A workflow   *)
(* that keeps returning to the reviser runs until the library stops it.)   *)
(***************************************************************************)
MaxRetries == 3

\* settings.max_retry_count
max_retry_count == 3

\* state.get(key, default); a key that is missing is written -1
state_get(v, default) == IF v = -1 THEN default ELSE v

\* mutant of should_continue_review: the retry limit is looked at first
should_continue_review_limit_first(state) ==
    LET review == state.review_result
        retry_count == state_get(state.retry_count, 0)
        max_retries == state_get(state.max_retries, max_retry_count)
    IN IF review = NoReview THEN "fail"
       ELSE IF retry_count >= max_retries THEN "fail"
       ELSE IF review.status = "pass" THEN "archive"
       ELSE "revise"

should_continue_review(state) ==
    LET review == state.review_result
        retry_count == state_get(state.retry_count, 0)
        max_retries == state_get(state.max_retries, max_retry_count)
    IN IF review = NoReview THEN "fail"
       ELSE IF review.status = "pass" THEN "archive"
       ELSE IF retry_count >= max_retries THEN "fail"
       ELSE "revise"

\* the ChapterStates the graph is invoked with
GraphStates ==
    [review_result :
         {NoReview} \cup {ReviewResult("pass", o.score, o.issues, NoText) :
                             o \in ReviewerOutputs},
     retry_count : {-1} \cup 0..MaxRetries,
     max_retries : {-1} \cup 0..MaxRetries]

\* add_edge(a, b), with set_entry_point("director")
edge(node) ==
    CASE node = "start" -> "director"
      [] node = "director" -> "plotter"
      [] node = "plotter" -> "context_builder"
      [] node = "context_builder" -> "writer"
      [] node = "writer" -> "reviewer"
      [] node = "reviser" -> "reviewer"
      [] node = "archivist" -> "END"

\* the mapping of add_conditional_edges("reviewer", should_continue_review, ..)
conditional_edge(outcome) ==
    CASE outcome = "revise" -> "reviser"
      [] outcome = "archive" -> "archivist"
      [] outcome = "fail" -> "END"

InitGraph ==
    /\ pc = "graph"
    /\ RunInit(Stores([exists |-> FALSE, chapters |-> <<>>,
                       characters |-> <<>>], <<>>, <<>>, {}), 0)
    /\ rv_in = NoRvIn
    /\ rv_out = NoReview
    /\ MemIdle
    /\ CliIdle
    /\ draft = NoDraft
    /\ delta_in = NoDeltaIn
    /\ delta_out = NoDeltaOut
    /\ \E state \in GraphStates :
          graph = [NoGraph EXCEPT !.node = "start", !.state = state]

GraphUnchanged ==
    UNCHANGED <<pc, arg_chapter_number, chapter_number, outline, context,
                loopVars, archVars, storeVars, errVars, store0, histVars,
                rvVars, flowVars, memVars, cliVars, draft, delta_in, delta_out,
                generation_requests>>

\* the node has run (the state is unchanged) and its edge is followed
GraphEdge ==
    /\ pc = "graph"
    /\ graph.node \in {"start", "director", "plotter", "context_builder",
                       "writer", "reviser", "archivist"}
    /\ graph' = [graph EXCEPT !.node = edge(graph.node),
                              !.archived = @ \/ edge(graph.node) = "archivist"]
    /\ GraphUnchanged

\* the reviewer node has run and should_continue_review picks the next node
GraphConditionalEdge ==
    /\ pc = "graph"
    /\ graph.node = "reviewer"
    /\ LET outcome == should_continue_review(graph.state)
       IN graph' = [graph EXCEPT
                       !.outcome = outcome,
                       !.node = conditional_edge(outcome),
                       !.archived = @ \/ conditional_edge(outcome) = "archivist"]
    /\ GraphUnchanged

NextGraph == GraphEdge \/ GraphConditionalEdge

GraphSpec == InitGraph /\ [][NextGraph]_vars

(***************************************************************************)
(* Properties                                                              *)
(***************************************************************************)

RunReturnsChapter ==
    /\ <>(pc = "done" /\ returned # NoChapter /\ returned.content # NoText)
    /\ [](pc # "failed")

\* a run in which no review passed has returned a chapter
RunReturnsChapterWitness ==
    /\ pc = "done"
    /\ ~passed
    /\ calls.review = 6
    /\ returned.content # NoText

PassStopsLoop ==
    [][/\ passed =>
            /\ calls'.run = calls.run
            /\ calls'.revise = calls.revise
            /\ calls'.review = calls.review
            /\ current_content' = current_content
       /\ (pc' = "done" /\ passed') =>
            /\ review_result'.status = "pass"
            /\ returned'.content = review_result'.reviewed
       /\ (pc' = "done" /\ passed' /\ version' = 1 /\ Len(reviews') = 1) =>
            /\ calls'.run = 1
            /\ calls'.review = 1
            /\ calls'.revise = 0]_vars

\* the first review of version 1 passed and the run returned
PassStopsLoopWitness ==
    /\ pc = "done"
    /\ passed
    /\ version = 1
    /\ Len(reviews) = 1
    /\ returned.content = WriterRun(1)

\* C5 as stated: when every review returns score 30 the run makes 3
\* generations and 6 reviews, no final revision, and returns the last
\* version's text unrevised.
AllRewriteNoFinalRevision ==
    (pc = "done" /\ only_score_30) =>
        /\ calls.run = 3
        /\ calls.review = 6
        /\ calls.revise = 0
        /\ returned.content = WriterRun(3)

\* C5 amended: when every review returns score 30 the run makes 3 generations
\* and 6 reviews, then exactly one final revision of the last version's text,
\* guided by the best review of that version, and returns the revised text.
AllRewriteOneFinalRevision ==
    (pc = "done" /\ only_score_30) =>
        /\ ~passed
        /\ calls.run = 3
        /\ calls.review = 6
        /\ calls.revise = 1
        /\ returned.content.gen = 3
        /\ Len(returned.content.revs) = 1
        /\ returned.content.revs[1].status = "rewrite_needed"
        /\ returned.content.revs[1].score = 30
        /\ returned.content.revs[1].reviewed = WriterRun(3)

\* every review returned score 30 and the run returned
AllRewriteWitness ==
    /\ pc = "done"
    /\ only_score_30
    /\ calls.review = 6
    /\ returned.content.revs # <<>>

\* C6: a run without a pass returns a Chapter whose content is the final
\* revision of the last generation guided by the review held at loop exit,
\* or, when none is held, the last output of the Writer for the last version.
ForcedAccept ==
    (pc = "done" /\ ~passed) =>
        /\ returned # NoChapter
        /\ returned.content # NoText
        /\ returned.content.gen = max_versions
        /\ IF final_review_result # NoReview
           THEN returned.content =
                    WriterRevise(WriterRun(max_versions),
                                 format_feedback_for_writer(final_review_result))
           ELSE returned.content = last_drafter_output

\* no review passed, a review was held at loop exit, the run returned
ForcedAcceptWitness ==
    /\ pc = "done"
    /\ ~passed
    /\ final_review_result # NoReview
    /\ final_review_result.score = 30
    /\ calls.revise = 2

\* C7: the original_content of every Writer.revise call is the unrevised
\* output of the latest Writer.run; the final revision is made only when the
\* last version was not revised in the loop.
NoDoubleRevision ==
    [][calls'.revise = calls.revise + 1 =>
          /\ current_content.revs = <<>>
          /\ current_content = WriterRun(calls.run)
          /\ pc = "final_revise" => calls.run = max_versions]_vars

\* three revisions in one run, the last one the final revision
NoDoubleRevisionWitness ==
    /\ pc = "done"
    /\ calls.revise = 3
    /\ final_review_result # NoReview

\* C8: a run that returns has called the Archivist exactly once, and no
\* Writer or Reviewer call follows an Archivist call.
ArchivistOnce ==
    [][/\ calls'.archivist <= 1
       /\ pc' = "done" => calls'.archivist = 1
       /\ calls.archivist >= 1 =>
            /\ calls'.run = calls.run
            /\ calls'.revise = calls.revise
            /\ calls'.review = calls.review]_vars

\* the version budget was exhausted and the chapter archived all the same
ArchivistOnceWitness ==
    /\ pc = "done"
    /\ ~passed
    /\ version = max_versions
    /\ calls.archivist = 1

applyKinds == SeqToSet(apply_order)

\* C9 as stated: when the run fails with an exception both stores are as
\* they were before the run.
FailedRunLeavesStores == pc = "failed" => CurrentStores = store0

\* C9 amended: when the run fails before _apply_updates both stores are as
\* they were before the run; when it fails in _apply_updates before
\* save_chapter is called the chapter list is as it was before the run.
FailedRunLeavesChapters ==
    pc = "failed" =>
        /\ failed_at \notin applyKinds => CurrentStores = store0
        /\ failed_at # "save_chapter" => novel.chapters = store0.novel.chapters

\* the run failed in the middle of _apply_updates
FailedRunWitness ==
    /\ pc = "failed"
    /\ failed_at = "key_events"
    /\ collection # store0.collection
    /\ novel.chapters = store0.novel.chapters

\* C10: when a stage call raises, the run has failed with that exception and
\* no further call is made.
NoRetryAfterRaise ==
    [][/\ stage_exc' # "none" => (pc' = "failed" /\ error' = stage_exc')
       /\ stage_exc # "none" => calls' = calls]_vars

\* the second review of version 2 raised
NoRetryWitness ==
    /\ pc = "failed"
    /\ failed_at = "review2"
    /\ version = 2
    /\ error = "TypeError"

\* C11: until the Archivist is called both stores are as they were when the
\* run started: get_novel, Director, Plotter, build_context, Writer and
\* Reviewer write nothing to them.
StoresUntouchedBeforeArchival == calls.archivist = 0 => CurrentStores = store0

\* the whole loop ran on a novel with a written chapter, the Archivist is next
StoresUntouchedWitness ==
    /\ pc = "archive"
    /\ calls.review = 6
    /\ calls.revise = 3
    /\ store0.novel.chapters # <<>>
    /\ context.relevant_memories # <<>>

\* C12: Director, Plotter and build_context are each called at most once, in
\* that order, and exactly once before any Writer or Reviewer call; every
\* Writer.run, Reviewer.run and Writer.revise call is handed the same outline
\* and the same context, which the call leaves as they are.
StagesOnceInOrder ==
    [][/\ calls'.director <= 1 /\ calls'.plotter <= 1
       /\ calls'.build_context <= 1
       /\ calls'.plotter > calls.plotter =>
              (calls.director = 1 /\ calls.build_context = 0)
       /\ calls'.build_context > calls.build_context =>
              (calls.plotter = 1 /\ calls.run = 0)
       /\ calls'.run + calls'.review + calls'.revise
              > calls.run + calls.review + calls.revise =>
              /\ calls.director = 1 /\ calls.plotter = 1
              /\ calls.build_context = 1
              /\ context.built
              /\ outline.chapter_number = chapter_number
              /\ outline' = outline /\ context' = context
              /\ stage_args' = {<<outline, context>>}]_vars

\* three versions, each revised, all handed one outline and one context
StagesOnceWitness ==
    /\ pc = "done"
    /\ calls.run = 3
    /\ calls.revise = 3
    /\ Cardinality(stage_args) = 1
    /\ context.relevant_memories # <<>>

\* C13: every review is made of the unrevised text the latest Writer.run
\* returned, and Writer.revise is called only when max_reviews_per_version
\* reviews of that text have been made and none of them passed.
ReviewsBeforeRevision ==
    [][/\ calls'.review = calls.review + 1 =>
              /\ current_content = WriterRun(calls.run)
              /\ pc' # "failed" =>
                     reviews'[Len(reviews')].reviewed = WriterRun(calls.run)
       /\ calls'.revise = calls.revise + 1 =>
              /\ Len(reviews) = max_reviews_per_version
              /\ \A i \in 1..Len(reviews) :
                     /\ reviews[i].status # "pass"
                     /\ reviews[i].reviewed = WriterRun(calls.run)
              /\ current_content = WriterRun(calls.run)]_vars

\* the second version is about to be revised after two failed reviews
ReviewsBeforeRevisionWitness ==
    /\ pc = "revise"
    /\ version = 2
    /\ calls.review = 4
    /\ calls.revise = 1

\* C14: when the reviews of a version are all made and none passed, the
\* review chosen is one of them, no other has a higher score, and every
\* review made before it has a lower score.
BestVerdictChosen ==
    (Len(reviews) = max_reviews_per_version /\ ~passed) =>
        /\ \E k \in 1..Len(reviews) :
              /\ best_review = reviews[k]
              /\ \A j \in 1..Len(reviews) : reviews[j].score <= reviews[k].score
              /\ \A j \in 1..(k - 1) : reviews[j].score < reviews[k].score
        /\ review_result = best_review
        /\ best_review.status = "rewrite_needed" =>
              final_review_result = best_review

\* two different reviews with the same score: the first was chosen
BestVerdictTieWitness ==
    /\ pc = "revise"
    /\ reviews[1].score = reviews[2].score
    /\ reviews[1] # reviews[2]
    /\ best_review = reviews[1]

\* C15: the feedback of a Writer.revise call comes from a review of exactly
\* the text handed to the call as original_content, one of the reviews of the
\* current version, in the loop and in the final revision; every feedback
\* applied to a text was made of that text as it was then.
FeedbackMatchesText ==
    /\ pc = "revise" =>
          /\ best_review.reviewed = current_content
          /\ best_review \in SeqToSet(reviews)
    /\ pc = "final_revise" =>
          /\ final_review_result.reviewed = current_content
          /\ final_review_result \in SeqToSet(reviews)
          /\ final_review_result = best_review
    /\ \A i \in 1..Len(current_content.revs) :
          current_content.revs[i].reviewed =
              [gen |-> current_content.gen,
               revs |-> SubSeq(current_content.revs, 1, i - 1)]

\* the final revision followed a revised second version
FeedbackMatchesWitness ==
    /\ pc = "done"
    /\ ~passed
    /\ calls.revise = 2
    /\ earlier_best = 60
    /\ returned.content.revs # <<>>
    /\ returned.content.revs[1].reviewed = WriterRun(max_versions)

\* C16 as stated: when no review passed, the version the returned content
\* derives from has a best review score that no other version of the run
\* exceeds.
BestVersionReturned ==
    (pc = "done" /\ ~passed) =>
        /\ returned.content.gen = max_versions
        /\ best_review.score >= earlier_best

\* C16 amended: when no review passed, the returned content derives from the
\* last version generated and the feedback applied to it comes from reviews
\* of that version, whatever the scores of the earlier versions.
LastVersionReturned ==
    (pc = "done" /\ ~passed) =>
        /\ calls.run = max_versions
        /\ returned.content.gen = calls.run
        /\ best_review.reviewed = WriterRun(calls.run)
        /\ \A i \in 1..Len(returned.content.revs) :
              returned.content.revs[i].reviewed.gen = calls.run

\* the last version's best score is below that of an earlier version
LastVersionWitness ==
    /\ pc = "done"
    /\ ~passed
    /\ earlier_best > best_review.score
    /\ returned.content.gen = max_versions

\* C17 as stated: a VectorStore.search call that fails during build_context
\* does not fail the run: the bundle is built with empty relevant_memories
\* and the run goes on.
SearchFailureDegrades == ~(pc = "failed" /\ failed_at = "context")

\* C18 as stated: a result of _search_relevant_memories has at most
\* max_results fragments, in ascending order of distance, no two with the same
\* 100-character prefix; and unless the result was cut at max_results every
\* prefix among the search results is the prefix of a fragment returned.
FragmentsDedupByPrefix ==
    \A c \in 1..Len(mem_out) :
        LET r == mem_out[c]
            found == collected_memories(mem_in.keywords, mem_in.index)
        IN /\ Len(r) <= mem_in.max_results
           /\ \A i, j \in 1..Len(r) : i < j => r[i].distance <= r[j].distance
           /\ \A i, j \in 1..Len(r) :
                  i < j => prefix100(r[i].content) # prefix100(r[j].content)
           /\ Len(r) < mem_in.max_results =>
                  \A m \in 1..Len(found) : \E i \in 1..Len(r) :
                      prefix100(r[i].content) = prefix100(found[m].content)

\* C18 amended: at most max_results fragments, in ascending order of
\* distance, no two with the same prefix nor with the same hash of the
\* prefix; unless the result was cut, every hash of a prefix among the search
\* results is the hash of the prefix of a fragment returned, and so is every
\* prefix when hash() gives different prefixes different values.
FragmentsDedupByFingerprint ==
    \A c \in 1..Len(mem_out) :
        LET r == mem_out[c]
            h == mem_in.hash
            found == collected_memories(mem_in.keywords, mem_in.index)
        IN /\ Len(r) <= mem_in.max_results
           /\ \A i \in 1..Len(r) : \E m \in 1..Len(found) : r[i] = found[m]
           /\ \A i, j \in 1..Len(r) : i < j => r[i].distance <= r[j].distance
           /\ \A i, j \in 1..Len(r) :
                  i < j => /\ prefix100(r[i].content) # prefix100(r[j].content)
                           /\ h[prefix100(r[i].content)]
                                  # h[prefix100(r[j].content)]
           /\ Len(r) < mem_in.max_results =>
                  \A m \in 1..Len(found) :
                      /\ \E i \in 1..Len(r) :
                             h[prefix100(r[i].content)]
                                 = h[prefix100(found[m].content)]
                      /\ (\A p, q \in DOMAIN h : p # q => h[p] # h[q]) =>
                             \E i \in 1..Len(r) :
                                 prefix100(r[i].content)
                                     = prefix100(found[m].content)

\* six search results, the first three with one prefix, the fourth with
\* another prefix and nearer: two fragments, the nearer one first
FragmentsDedupWitness ==
    /\ mem_out # <<>>
    /\ Len(mem_in.keywords) = 2
    /\ mem_in.max_results = max_memories
    /\ mem_in.hash["a"] # mem_in.hash["b"]
    /\ Len(collected_memories(mem_in.keywords, mem_in.index)) = 2 * top_k
    /\ prefix100(collected_memories(mem_in.keywords,
                                    mem_in.index)[top_k].content) = "a"
    /\ Len(mem_out[1]) = 2
    /\ mem_out[1][1].distance < mem_out[1][2].distance
    /\ prefix100(mem_out[1][1].content) = "b"

NoKeywordsNoSearch ==
    (extract_keywords(outline) = {} /\ calls.build_context > 0) =>
        /\ calls.search = 0
        /\ failed_at # "context"
        /\ context.built
        /\ context.relevant_memories = <<>>

\* a run on an index with a chunk, the outline without keywords, has returned
NoKeywordsWitness ==
    /\ pc = "done"
    /\ extract_keywords(outline) = {}
    /\ store0.collection # {}
    /\ context.built
    /\ calls.search = 0

\* C21 as stated: every delta string with a colon writes the text before its
\* first colon as key and the text after it as value, every delta string
\* without a colon writes the whole string as key with the sentinel value, and
\* the key of every delta string is in the character's map (with the value of
\* the last delta that has this key).
DeltasParsedAsStated ==
    delta_out.applied =>
        LET colon(s) == CHOOSE i \in 1..Len(s) :
                            s[i] = ":" /\ \A j \in 1..(i - 1) : s[j] # ":"
            with_colon(s) == \E i \in 1..Len(s) : s[i] = ":"
            key(s) == IF with_colon(s) THEN SubSeq(s, 1, colon(s) - 1) ELSE s
            value(s, sentinel) ==
                IF with_colon(s) THEN SubSeq(s, colon(s) + 1, Len(s))
                ELSE sentinel
            written(m, L, sentinel) ==
                \A i \in 1..Len(L) :
                    /\ key(L[i]) \in DOMAIN m
                    /\ (\A j \in (i + 1)..Len(L) : key(L[j]) # key(L[i]))
                           => m[key(L[i])] = value(L[i], sentinel)
        IN /\ written(delta_out.relationships, delta_in.relationship_updates,
                      Updated)
           /\ written(delta_out.skills, delta_in.skill_updates,
                      AcquiredUpdated)

\* C21 amended: a delta string with a colon writes the text before its first
\* colon, stripped of surrounding blanks, as key and the text after it,
\* stripped, as value; a relationship delta without a colon writes the whole
\* string as key with the value "updated", a skill delta without a colon the
\* stripped string with the value "acquired/updated".  The key of every
\* delta string is in the map, with the value of the last delta that has
\* this key, and the map holds these keys and the entries it had, no more.
DeltasParsedStripped ==
    delta_out.applied =>
        LET colon(s) == CHOOSE i \in 1..Len(s) :
                            s[i] = ":" /\ \A j \in 1..(i - 1) : s[j] # ":"
            with_colon(s) == \E i \in 1..Len(s) : s[i] = ":"
            key(s, skill) ==
                IF with_colon(s) THEN strip(SubSeq(s, 1, colon(s) - 1))
                ELSE IF skill THEN strip(s) ELSE s
            value(s, skill) ==
                IF with_colon(s) THEN strip(SubSeq(s, colon(s) + 1, Len(s)))
                ELSE IF skill THEN AcquiredUpdated ELSE Updated
            written(m, old, L, skill) ==
                /\ \A i \in 1..Len(L) :
                       /\ key(L[i], skill) \in DOMAIN m
                       /\ (\A j \in (i + 1)..Len(L) :
                               key(L[j], skill) # key(L[i], skill))
                              => m[key(L[i], skill)] = value(L[i], skill)
                /\ DOMAIN m = DOMAIN old
                                 \cup {key(L[i], skill) : i \in 1..Len(L)}
                /\ \A k \in DOMAIN old :
                       (\A i \in 1..Len(L) : key(L[i], skill) # k)
                           => m[k] = old[k]
        IN /\ written(delta_out.relationships, delta_in.relationships,
                      delta_in.relationship_updates, FALSE)
           /\ written(delta_out.skills, delta_in.skills,
                      delta_in.skill_updates, TRUE)

\* two relationship deltas applied to a map with one entry: one with blanks
\* around its colon-separated parts, one without a colon
DeltasParsedWitness ==
    /\ delta_out.applied
    /\ delta_in.relationships # <<>>
    /\ Len(delta_in.relationship_updates) = 2
    /\ delta_in.relationship_updates[1] = <<" ", ":", "a">>
    /\ ~has_colon(delta_in.relationship_updates[2])
    /\ delta_in.relationship_updates[2] # <<>>
    /\ Cardinality(DOMAIN delta_out.relationships) = 3


\* C22: one call of _generate_with_continuation makes at most
\* 1 + max_continuations backend invocations; a continuation is requested only
\* when the text so far is not empty and does not end with terminal
\* punctuation; the request carries the last tail_chars characters of the
\* text and no more; the output returned is appended to the text; and after
\* max_continuations continuations the call returns whatever the text ends
\* with.
DraftBounded ==
    /\ [](/\ draft.invocations <= 1 + max_continuations
          /\ draft.continuations <= max_continuations)
    /\ [][/\ draft'.continuations # draft.continuations =>
               /\ draft.full_content # <<>>
               /\ draft.full_content[Len(draft.full_content)]
                      \notin terminal_punctuation
               /\ Len(draft'.anchor) * BlockChars <= tail_chars
               /\ \E k \in 0..Len(draft.full_content) :
                      /\ draft'.anchor
                             = SubSeq(draft.full_content, k + 1,
                                      Len(draft.full_content))
                      /\ k > 0 => (Len(draft'.anchor) + 1) * BlockChars
                                      > tail_chars
               /\ draft'.full_content = draft.full_content \o draft'.chunk
               /\ draft'.invocations = draft.invocations + 1
          /\ (draft.state = "loop"
                 /\ draft.continuations = max_continuations)
                => draft'.state = "returned"]_vars

\* a call that returns after three continuations a text that still does not
\* end with terminal punctuation, the last request having carried less than
\* the text
DraftBoundedWitness ==
    /\ draft.state = "returned"
    /\ draft.invocations = 1 + max_continuations
    /\ seems_truncated(draft.full_content)
    /\ Len(draft.anchor) < Len(draft.full_content) - Len(draft.chunk)


\* C26: after any number of save_chapter calls on a store loaded with unique,
\* ascending chapter numbers the chapter list is in strictly ascending order
\* of chapter_number, hence holds at most one chapter per number; a call with
\* a number the list holds puts the chapter in the place of the record with
\* that number and changes nothing else, a call with a new number adds one
\* record.
OneChapterPerNumber ==
    pc = "store" =>
        LET new == novel.chapters
            old == store0.novel.chapters
            held(l, n) == \E i \in 1..Len(l) : l[i].chapter_number = n
        IN /\ \A i, j \in 1..Len(new) :
                  i < j => new[i].chapter_number < new[j].chapter_number
           /\ chapter # NoChapter =>
                  /\ \E i \in 1..Len(new) : new[i] = chapter
                  /\ \A n \in 1..MaxChapterNumber :
                         n # chapter.chapter_number =>
                             /\ held(new, n) <=> held(old, n)
                             /\ \A i \in 1..Len(new), j \in 1..Len(old) :
                                    (new[i].chapter_number = n
                                       /\ old[j].chapter_number = n)
                                        => new[i] = old[j]
                  /\ Len(new) = IF held(old, chapter.chapter_number)
                                THEN Len(old) ELSE Len(old) + 1

\* a call that saved chapter 2 over the chapter 2 of a list of three
SaveReplacesWitness ==
    /\ pc = "store"
    /\ chapter = Chapter(2, NewText)
    /\ Len(store0.novel.chapters) = MaxChapterNumber
    /\ store0.novel.chapters[2] # chapter
    /\ Len(novel.chapters) = MaxChapterNumber
    /\ novel.chapters[2] = chapter


EveryUpdateApplied ==
    pc = "done" =>
        \A k \in 1..Len(archive_result.character_updates) :
            LET u == archive_result.character_updates[k] IN
            ~no_updates(u) =>
                /\ u.name \in DOMAIN novel.characters
                /\ LET c == novel.characters[u.name] IN
                   /\ Truthy(u.status) => c.status = u.status
                   /\ Truthy(u.location) => c.location = u.location
                   /\ Truthy(u.power_level) => c.power_level = u.power_level
                   /\ \A x \in SeqToSet(u.inventory_add)
                                \ SeqToSet(u.inventory_remove) :
                          x \in SeqToSet(c.inventory)
                   /\ \A x \in SeqToSet(u.inventory_remove) :
                          x \notin SeqToSet(c.inventory)
                   /\ \A x \in SeqToSet(u.new_abilities)
                                \ SeqToSet(u.lost_abilities) :
                          x \in SeqToSet(c.abilities)
                   /\ \A x \in SeqToSet(u.equipment_add)
                                \ SeqToSet(u.equipment_remove) :
                          x \in SeqToSet(c.equipment)

\* C30 as stated: a character update with inventory_add = A and
\* inventory_remove = R leaves a character whose inventory was I with the
\* inventory I followed by A, without the items of R.
InventoryAddThenRemove ==
    pc = "done" =>
        \A k \in 1..Len(archive_result.character_updates) :
            LET u == archive_result.character_updates[k] IN
            (/\ Len(archive_result.character_updates) = 1
             /\ u.name \in DOMAIN store0.novel.characters
             /\ u.inventory_add # <<>>
             /\ u.inventory_remove # <<>>) =>
                novel.characters[u.name].inventory
                    = Without(store0.novel.characters[u.name].inventory
                                  \o u.inventory_add,
                              u.inventory_remove)

\* the chapters a batch selects: the outlines that had no chapter file when
\* the command started, in the order of outline.md, cut to --count
SelectedChapters ==
    LET gen0 == {ch.chapter_number : ch \in SeqToSet(cli.loaded.novel.chapters)}
        NotGen(n) == n \notin gen0
        todo == SelectSeq(cli.outlines, NotGen)
    IN IF cli.count = -1 THEN todo
       ELSE SubSeq(todo, 1, IF cli.count < Len(todo) THEN cli.count
                            ELSE Len(todo))

\* C24: in a batch write (write-n, write-all) the chapters attempted are
\* always the first chapters selected, each once and in outline order; every
\* finished attempt is counted as completed or as failed; a batch that ends
\* has attempted every selected chapter, whatever failed on the way, and
\* completed + failed is the number of selected chapters.
BatchAttemptsEveryChapter ==
    (is_batch(cli) /\ pc # "cli") =>
        /\ cli.pending = SelectedChapters
        /\ cli.attempted = SubSeq(cli.pending, 1, cli.i)
        /\ cli.completed + cli.failed
               = IF pc = "next" \/ pc = "exit" THEN cli.i ELSE cli.i - 1
        /\ pc = "exit" =>
              /\ cli.attempted = SelectedChapters
              /\ cli.completed + cli.failed = Len(SelectedChapters)

\* a batch of two chapters whose first chapter failed and whose second
\* chapter was completed has ended
BatchAttemptsWitness ==
    /\ is_batch(cli)
    /\ pc = "exit"
    /\ Len(cli.attempted) = 2
    /\ cli.failed = 1
    /\ cli.completed = 1
    /\ returned.chapter_number = cli.attempted[2]

\* C23 as stated: a write command in which an exception was caught during
\* the generation of a chapter exits with code 1.
ExitCodeReportsFailure ==
    (pc = "exit" /\ cli.failed > 0) => cli.exit_code = 1

\* the chapter numbers of a novel's chapter list
ChapterNumbers(nv) == {nv.chapters[k].chapter_number : k \in 1..Len(nv.chapters)}

\* the calls of the stages made so far in the run
StageCalls ==
    calls.director + calls.plotter + calls.build_context + calls.run
    + calls.review + calls.revise + calls.archivist

\* C25: in the runs of a command the stores are written only while the
\* Archivist's updates of the chapter in progress are applied; a run that
\* returned has its chapter in the novel; from the start of the next run up
\* to its own archival the stores are those the previous attempt left, and
\* the context built for it reads the latest chapter of those stores; a step
\* completes at most one stage call.
BatchWritesVisible ==
    /\ [](cli.command # "none" =>
            /\ pc \in {"start", "director", "plotter", "context", "writer",
                       "review1", "review2", "revise", "after_loop",
                       "final_revise", "create_chapter", "archive"} =>
                  /\ CurrentStores = cli.stores_after
                  /\ store0 = cli.stores_after
            /\ (context.built /\ pc \notin {"next", "exit"}) =>
                  context.previous_chapter
                      = get_latest_chapter(cli.stores_after.novel).chapter_number
            /\ pc = "done" => returned.chapter_number \in ChapterNumbers(novel))
    /\ [][cli.command # "none" =>
            /\ CurrentStores' # CurrentStores => pc = "apply"
            /\ calls' = NoCalls \/ StageCalls' <= StageCalls + 1]_vars

\* the context of the second chapter of a batch is built after the first
\* chapter was archived, and names it as the previous chapter
BatchWritesVisibleWitness ==
    /\ is_batch(cli)
    /\ cli.i = 2
    /\ cli.completed = 1
    /\ pc = "writer"
    /\ context.built
    /\ cli.attempted[1] \in ChapterNumbers(novel)
    /\ cli.attempted[1] \notin ChapterNumbers(cli.loaded.novel)
    /\ context.previous_chapter = cli.attempted[1]

\* C27 as stated: a run called with max_review_attempts = m (or with its
\* alias max_retries = m) reviews at most m versions and calls Writer.revise
\* at most m times.
ReviewCyclesWithinAttempts ==
    /\ reviews # <<>> => version <= max_review_attempts
    /\ calls.revise <= max_review_attempts

\* C32: every text handed to Reviewer.run is the output of the Writer.run
\* call of the version in progress, never a text Writer.revise returned; a
\* revision (mid-run or final) is followed by the next generation or by the
\* end of the loop, never by a review of the revised text.
ReviewedTextIsGenerated ==
    /\ [](\A k \in 1..Len(reviews) :
             /\ reviews[k].reviewed.revs = <<>>
             /\ reviews[k].reviewed.gen >= 1)
    /\ [][/\ calls'.review > calls.review =>
              /\ current_content.revs = <<>>
              /\ current_content.gen = calls.run
              /\ Len(reviews') > Len(reviews) =>
                    reviews'[Len(reviews')].reviewed = current_content
          /\ calls'.revise > calls.revise =>
              /\ calls'.review = calls.review
              /\ pc' \in {"writer", "after_loop", "create_chapter", "failed"}
          /\ current_content.revs # <<>> => calls'.review = calls.review]_vars

\* a run whose three versions were each reviewed twice and revised has
\* returned
ReviewedTextWitness ==
    /\ pc = "done"
    /\ calls.review = max_versions * max_reviews_per_version
    /\ calls.revise = max_versions
    /\ returned.content.revs # <<>>

\* C33: the content of the returned Chapter is the text of the last
\* Writer.run call of the run, revised at most once; every Writer.run call
\* replaces the text generated or revised before it.
ReturnedFromLastGeneration ==
    /\ [](pc = "done" =>
            /\ returned.content.gen = calls.run
            /\ Len(returned.content.revs) <= 1
            /\ returned.content = current_content)
    /\ [][calls'.run > calls.run /\ pc' # "failed" =>
              current_content' = [gen |-> calls.run + 1, revs |-> <<>>]]_vars

\* a run that revised its first version and passed with its second version
\* returned the second version unrevised
ReturnedFromLastGenerationWitness ==
    /\ pc = "done"
    /\ passed
    /\ calls.run = 2
    /\ calls.revise = 1
    /\ returned.content = [gen |-> 2, revs |-> <<>>]

\* C35: a run never makes more Writer.revise calls than Writer.run calls,
\* the text in hand is never revised twice, and the run makes at most
\* max_versions Writer.revise calls and at most 2 * max_versions = 6 Writer
\* calls.
OneRevisionPerVersion ==
    /\ calls.revise <= calls.run
    /\ calls.run <= max_versions
    /\ calls.revise <= max_versions
    /\ calls.run + calls.revise <= 2 * max_versions
    /\ calls.run + calls.revise <= 6
    /\ Len(current_content.revs) <= 1

\* a run that made six Writer calls has returned
OneRevisionPerVersionWitness ==
    /\ pc = "done"
    /\ calls.run = max_versions
    /\ calls.revise = max_versions
    /\ Len(returned.content.revs) = 1

\* C36 as stated: the chapter used as the previous chapter of a run
\* generating chapter N (for the Plotter's summary and for the context) has
\* a chapter number strictly less than N.
PreviousChapterPrecedes ==
    /\ context.built => context.previous_chapter < chapter_number
    /\ (pc = "plotter" /\ novel.chapters # <<>>) =>
          get_latest_chapter(novel).chapter_number < chapter_number

\* C31 as stated: applying the same ArchiveResult for the same chapter a
\* second time leaves the StructuredStore and the VectorStore as the first
\* application left them.
ArchivalIdempotent ==
    (pc = "archival" /\ apply_i = 1) => CurrentStores = store0

\* C37 as stated: after any sequence of archival runs the foreshadowing
\* records of the StructuredStore have pairwise distinct ids.
ForeshadowingIdsDistinct ==
    \A i, j \in 1..Len(foreshadowing) :
        i # j => foreshadowing[i].id # foreshadowing[j].id

\* C34: every Writer.run call of a run is made with the outline, the context
\* and the target word count fixed before the loop, and with nothing else:
\* all generation requests of a run are one and the same request, whatever
\* the Reviewer returned in between.
VersionsIndependent ==
    /\ [](generation_requests \subseteq {<<outline, context, 3000>>})
    /\ [][calls'.run > calls.run =>
              /\ outline' = outline
              /\ context' = context
              /\ generation_requests' = {<<outline, context, 3000>>}]_vars

\* three versions were requested after failed reviews, with one request
VersionsIndependentWitness ==
    /\ pc = "done"
    /\ calls.run = max_versions
    /\ calls.revise >= 1
    /\ best_review # NoReview
    /\ Cardinality(generation_requests) = 1

\* the outcome C38 states for a ChapterState (a missing retry_count is 0, a
\* missing max_retries is settings.max_retry_count = 3)
StatedOutcome(state) ==
    LET rc == IF state.retry_count = -1 THEN 0 ELSE state.retry_count
        mr == IF state.max_retries = -1 THEN 3 ELSE state.max_retries
    IN IF state.review_result # NoReview /\ state.review_result.status = "pass"
       THEN "archive"
       ELSE IF state.review_result = NoReview \/ rc >= mr THEN "fail"
       ELSE "revise"

\* C38: should_continue_review returns archive for a review with status
\* pass whatever retry_count is, fail without a review or when a review that
\* did not pass meets retry_count >= max_retries, and revise otherwise; in
\* the graph the archivist node is entered only from the reviewer after an
\* archive outcome, and a fail outcome ends the workflow without archiving.
ReviewRouting ==
    /\ [](graph.outcome # "none" => graph.outcome = StatedOutcome(graph.state))
    /\ [](graph.archived => graph.outcome = "archive")
    /\ []((graph.node = "END" /\ graph.outcome = "fail") => ~graph.archived)
    /\ [][/\ graph'.node = "archivist" =>
              (graph.node = "reviewer" /\ graph'.outcome = "archive")
          /\ (graph.node = "reviewer" /\ graph'.outcome = "fail") =>
              graph'.node = "END"
          /\ graph'.state = graph.state]_vars

\* a workflow whose review passed with retry_count at max_retries was
\* archived and has ended
ReviewRoutingWitness ==
    /\ graph.node = "END"
    /\ graph.archived
    /\ graph.outcome = "archive"
    /\ graph.state.max_retries >= 1
    /\ graph.state.retry_count >= graph.state.max_retries

====
